---------------------------- MODULE Spec2Model ----------------------------
(***************************************************************************)
(* A model of the Visual-Manual-MCP ingestion code.                        *)
(*                                                                         *)
(*   build_stream        legacy/stream_builder_legacy.py                   *)
(*                       PDFStreamLoader.load, SectionSegmenter            *)
(*   process_document    legacy/hybrid_ingest.py (HybridPageIngestor),     *)
(*                       run from run_master_pipeline or from __main__     *)
(*   process_directory   legacy/ingest_markdown.py (IngestionPipeline)     *)
(*   ingest_document     multimodal_ingest.py (MultimodalIngestor)         *)
(*                                                                         *)
(* Text is a sequence of one-character strings; the regular expressions of *)
(* the code are operators over such sequences.  Every program has its own  *)
(* variables and its own next-state relation; a specification runs one     *)
(* program from a family of inputs and leaves the others idle.             *)
(***************************************************************************)
EXTENDS Integers, Sequences, FiniteSets, TLC

VARIABLES
    \* build_stream
    pdf,            \* the document behind pdf_path (input)
    toc,            \* the TOC artifact behind toc_path (input)
    bsPc,           \* position of build_stream
    docOpen,        \* loader.doc is an open handle
    globalStream,   \* loader.global_stream
    recoveryLog,    \* the "[Auto-Recovery] Detected orphan caption" lines printed
    firstResult,    \* the stream load() returned (kept by the caller)
    flatToc,        \* segmenter.flat_toc
    sections,       \* the dict segment() builds, in key insertion order
    bsResult,       \* what build_stream gave its caller
    \* HybridPageIngestor, run by run_master_pipeline or by __main__
    hyIn,           \* the run's inputs: caller, document, TOC, targets
    hyPc,           \* position of the run
    hyDocOpen,      \* ingestor.doc is an open handle
    pageMap,        \* page_to_section, page p at index p
    hyIdx,          \* page_idx + 1 of the page loop
    sectionBuffers, \* section_buffers, in key insertion order
    pathLog,        \* per processed page, the paths taken for it
    genFiles,       \* the files written, in order
    \* IngestionPipeline.process_directory
    plIn,           \* the run's inputs: directory, files, force, max_workers
    plPc,           \* position of the calling thread
    plSubmitted,    \* how many of md_files have a future
    plQueue,        \* the executor's work queue
    plRunning,      \* the futures a worker thread is running
    plDone,         \* the finished futures, in completion order
    plFinishedFirst, \* the futures as_completed found finished when called
    plYielded,      \* the futures as_completed has yielded, in order
    outputPaths,    \* output_paths
    plErrors,       \* the files whose exception was printed
    \* MultimodalIngestor.ingest_document
    mmIn,           \* the run's inputs: document and what can fail
    mmPc,           \* position of the run
    mmDocOpen,      \* doc is an open handle
    mmIdx,          \* page_idx + 1 of the page loop
    mmImages,       \* the page snapshots saved
    mmTexts,        \* the text files written
    mmManifest,     \* manifest["pages"], and whether the manifest is saved
    \* SimpleMemMCPServer.run
    mcIn,           \* the run's inputs: the lines of stdin, the table, a read failure
    mcPc,           \* position of run()
    mcThread,       \* position of reading_thread
    mcRead,         \* how many lines of stdin the thread has read
    mcBuf,          \* the lines fed to the reader and not yet taken, by index
    mcEof,          \* feed_eof has been called
    mcOut,          \* the responses written to stdout, in order
    mcErr,          \* the lines whose "[MCP Error]" was printed to stderr
    mcHandled       \* the lines the loop has taken, in order

bsVars == <<pdf, toc, bsPc, docOpen, globalStream, recoveryLog, firstResult,
            flatToc, sections, bsResult>>

hyVars == <<hyIn, hyPc, hyDocOpen, pageMap, hyIdx, sectionBuffers, pathLog,
            genFiles>>

plVars == <<plIn, plPc, plSubmitted, plQueue, plRunning, plDone,
            plFinishedFirst, plYielded, outputPaths, plErrors>>

mmVars == <<mmIn, mmPc, mmDocOpen, mmIdx, mmImages, mmTexts, mmManifest>>

mcVars == <<mcIn, mcPc, mcThread, mcRead, mcBuf, mcEof, mcOut, mcErr, mcHandled>>

vars == <<bsVars, hyVars, plVars, mmVars, mcVars>>

---------------------------------------------------------------------------
(* Text *)

Digits == {"0", "1", "2", "3", "4", "5", "6", "7", "8", "9"}
Spaces == {" ", "\n", "\t"}
DigitsAndDots == Digits \cup {"."}

\* None, where a text or a section id is expected
NoneVal == <<>>

\* None, where an element is expected
NoElement == [element_type |-> "none"]

Max(a, b) == IF a >= b THEN a ELSE b

\* n filler characters
Pad(n) == [i \in 1..n |-> "x"]

\* The last index of the maximal run of characters of cls that starts at i
\* (i - 1 when s[i] is not in cls).
RECURSIVE RunEnd(_, _, _)
RunEnd(s, i, cls) ==
    IF i <= Len(s) /\ s[i] \in cls THEN RunEnd(s, i + 1, cls) ELSE i - 1

\* The first index of the maximal run of characters of cls that ends at j
\* (j + 1 when s[j] is not in cls).
RECURSIVE RunStart(_, _, _)
RunStart(s, j, cls) ==
    IF j >= 1 /\ s[j] \in cls THEN RunStart(s, j - 1, cls) ELSE j + 1

\* str.strip()
Strip(s) ==
    LET a == RunEnd(s, 1, Spaces) + 1
        b == RunStart(s, Len(s), Spaces) - 1
    IN  IF a > b THEN <<>> ELSE SubSeq(s, a, b)

\* s[i:].startswith(p), i 1-based
StartsAt(s, i, p) ==
    /\ i >= 1
    /\ i + Len(p) - 1 <= Len(s)
    /\ SubSeq(s, i, i + Len(p) - 1) = p

\* p in s
Contains(s, p) == \E i \in 1..(Len(s) - Len(p) + 1) : StartsAt(s, i, p)

\* The end of the longest \d+(?:\.\d+)* that starts at i (i - 1: none).
RECURSIVE DottedEnd(_, _)
DottedEnd(s, e) ==
    IF /\ e + 2 <= Len(s)
       /\ s[e + 1] = "."
       /\ s[e + 2] \in Digits
    THEN DottedEnd(s, RunEnd(s, e + 2, Digits))
    ELSE e

DottedNumeralEnd(s, i) ==
    LET d == RunEnd(s, i, Digits)
    IN  IF d < i THEN i - 1 ELSE DottedEnd(s, d)


\* decimal digits of a natural number (f"{n}")
RECURSIVE IntChars(_)
IntChars(n) ==
    LET d == <<"0", "1", "2", "3", "4", "5", "6", "7", "8", "9">>
    IN  IF n < 10 THEN <<d[n + 1]>> ELSE IntChars(n \div 10) \o <<d[(n % 10) + 1]>>

\* "\n".join(lines)
RECURSIVE JoinLines(_)
JoinLines(lines) ==
    IF lines = <<>> THEN <<>>
    ELSE IF Len(lines) = 1 THEN lines[1]
    ELSE lines[1] \o <<"\n">> \o JoinLines(Tail(lines))

---------------------------------------------------------------------------
(* PDFStreamLoader: extraction *)

\* A stream element (StreamElement).  src is the identity of the object:
\* the page, the list ("text", "image", "snap") and the index it came from.
\* bbox is kept by its y0 (the block's, the image rectangle's or the clip's,
\* which is also y_position); image_bytes is None for text and the bytes of
\* the object for an image or a snapshot.
Element(type, content, page_num, y, src) ==
    [element_type |-> type, content |-> content, page_num |-> page_num,
     y_position |-> y, bbox |-> [y0 |-> y],
     image_bytes |-> IF type = "image" THEN <<"png", src>> ELSE NoneVal,
     section_id |-> NoneVal, src |-> src]

NOISE_PATTERNS ==
    << <<"M","o","d","i","f","i","c","a","t","i","o","n","s"," ",
         "r","e","s","e","r","v","e","d">>,
       <<"D","a","t","a"," ","s","u","b","j","e","c","t"," ","t","o"," ",
         "c","h","a","n","g","e">>,
       <<"P","r","i","n","t","e","d"," ","i","n"," ","G","e","r","m","a","n","y">>,
       <<"D","o","c","u","m","e","n","t"," ","n","u","m","b","e","r",":">>,
       <<"R","e","v","i","s","i","o","n","_">>,
       <<"|"," ","6","1">>,
       <<"B","o","s","c","h"," ","S","e","n","s","o","r","t","e","c"," ","|">>,
       <<"[","T","B","D","]">>,
       <<".", " ", ".", " ", ".", " ", ".", " ", ".", " ", ".">> >>

\* any(pattern in text for pattern in NOISE_PATTERNS)
HasNoise(text) ==
    \E k \in 1..Len(NOISE_PATTERNS) : Contains(text, NOISE_PATTERNS[k])

TextBand == 50
ShortTextLen == 100

\* the text of a block: its lines joined by "\n", stripped
BlockText(block) == Strip(JoinLines(block.lines))

\* The noise filter of _extract_text_blocks: the two `continue`s on noise.
NoiseDroppedWrongBand(text, y_pos, page_height) ==
    \/ (y_pos < TextBand /\ HasNoise(text))
    \/ (Len(text) < ShortTextLen /\ HasNoise(text))

NoiseDropped(text, y_pos, page_height) ==
    \/ ((y_pos < TextBand \/ y_pos > page_height - TextBand) /\ HasNoise(text))
    \/ (Len(text) < ShortTextLen /\ HasNoise(text))

\* _extract_text_blocks: the Text elements of a page, in block order
RECURSIVE ExtractTextFrom(_, _, _)
ExtractTextFrom(page, page_num, k) ==
    IF k > Len(page.blocks) THEN <<>>
    ELSE LET block == page.blocks[k]
             text == BlockText(block)
             rest == ExtractTextFrom(page, page_num, k + 1)
         IN  IF block.type # 0 THEN rest
             ELSE IF text = <<>> THEN rest
             ELSE IF NoiseDropped(text, block.y0, page.height) THEN rest
             ELSE <<Element("text", text, page_num, block.y0,
                            <<page_num, "text", k>>)>> \o rest

ExtractTextBlocks(page, page_num) == ExtractTextFrom(page, page_num, 1)

HEADER_THRESHOLD == 80
ImageTextMax == 50

ImageContent(xref) ==
    <<"[", "I", "M", "A", "G", "E", ":">> \o IntChars(xref) \o <<"]">>

\* The image filter with the text condition at 50 characters or more
ImageDroppedFromFifty(img, page_height) ==
    LET pdf_text == Strip(img.clip_text)
    IN  \/ (pdf_text # <<>> /\ Len(pdf_text) >= ImageTextMax)
        \/ img.y0 < HEADER_THRESHOLD
        \/ img.y0 > page_height - HEADER_THRESHOLD

\* The image filter of _extract_images for an image that was read and has
\* a rectangle: conditions A and B.
ImageDropped(img, page_height) ==
    LET pdf_text == Strip(img.clip_text)
    IN  \/ (pdf_text # <<>> /\ Len(pdf_text) > ImageTextMax)
        \/ img.y0 < HEADER_THRESHOLD
        \/ img.y0 > page_height - HEADER_THRESHOLD

\* _extract_images with the loop left at the first image that raises
RECURSIVE ExtractImagesStopAtFault(_, _, _)
ExtractImagesStopAtFault(page, page_num, k) ==
    IF k > Len(page.images) THEN <<>>
    ELSE LET img == page.images[k]
             rest == ExtractImagesStopAtFault(page, page_num, k + 1)
         IN  IF img.fault # "none" THEN <<>>
             ELSE IF ~img.has_rect THEN rest
             ELSE IF ImageDropped(img, page.height) THEN rest
             ELSE <<Element("image", ImageContent(img.xref), page_num, img.y0,
                            <<page_num, "image", k>>)>> \o rest

\* _extract_images: the Image elements of a page, in the page's image order.
\* img.fault says whether extract_image or get_image_rects raises.
RECURSIVE ExtractImagesFrom(_, _, _)
ExtractImagesFrom(page, page_num, k) ==
    IF k > Len(page.images) THEN <<>>
    ELSE LET img == page.images[k]
             rest == ExtractImagesFrom(page, page_num, k + 1)
         IN  IF img.fault # "none" THEN rest
             ELSE IF ~img.has_rect THEN rest
             ELSE IF ImageDropped(img, page.height) THEN rest
             ELSE <<Element("image", ImageContent(img.xref), page_num, img.y0,
                            <<page_num, "image", k>>)>> \o rest

ExtractImages(page, page_num) == ExtractImagesFrom(page, page_num, 1)

\* all_elements of load(): per page, its text elements then its images
RECURSIVE AllElementsFrom(_, _)
AllElementsFrom(doc, page_num) ==
    IF page_num > Len(doc.pages) THEN <<>>
    ELSE ExtractTextBlocks(doc.pages[page_num], page_num)
         \o ExtractImages(doc.pages[page_num], page_num)
         \o AllElementsFrom(doc, page_num + 1)

AllElements(doc) == AllElementsFrom(doc, 1)

---------------------------------------------------------------------------
(* PDFStreamLoader: ordering *)

\* key=lambda e: (e.page_num, e.y_position), compared as tuples
KeyLessByYOnly(a, b) == a.y_position < b.y_position

KeyLess(a, b) ==
    \/ a.page_num < b.page_num
    \/ (a.page_num = b.page_num /\ a.y_position < b.y_position)

\* sorted()/list.sort(): a stable sort.  e goes after every element whose
\* key is not greater than its own.
InsertSortedUnstable(sorted, e) ==
    LET before == SelectSeq(sorted, LAMBDA x : KeyLess(x, e))
        after == SelectSeq(sorted, LAMBDA x : ~KeyLess(x, e))
    IN  before \o <<e>> \o after

InsertSorted(sorted, e) ==
    LET before == SelectSeq(sorted, LAMBDA x : ~KeyLess(e, x))
        after == SelectSeq(sorted, LAMBDA x : KeyLess(e, x))
    IN  before \o <<e>> \o after

RECURSIVE SortInto(_, _)
SortInto(sorted, rest) ==
    IF rest = <<>> THEN sorted
    ELSE SortInto(InsertSorted(sorted, Head(rest)), Tail(rest))

SortStream(s) == SortInto(<<>>, s)

---------------------------------------------------------------------------
(* PDFStreamLoader: vector-figure recovery *)

FigureWord == <<"F", "i", "g", "u", "r", "e">>

\* re.match(r"^Figure\s+\d+:", content)
IsCaption(content) ==
    LET f == Len(FigureWord)
        w == RunEnd(content, f + 1, Spaces)
        d == RunEnd(content, w + 1, Digits)
    IN  /\ StartsAt(content, 1, FigureWord)
        /\ w >= f + 1
        /\ d >= w + 1
        /\ d + 1 <= Len(content)
        /\ content[d + 1] = ":"

RecoveryGap == 400

\* needs_recovery with the gap test at 400 or more
NeedsRecoveryFromGap(stream, i) ==
    \/ i = 1
    \/ /\ i > 1
       /\ LET prev_elem == stream[i - 1]
              elem == stream[i]
          IN  \/ prev_elem.page_num # elem.page_num
              \/ prev_elem.element_type # "image"
              \/ (elem.y_position - prev_elem.y_position) >= RecoveryGap

\* needs_recovery for the caption at index i (1-based) of the stream
NeedsRecovery(stream, i) ==
    \/ i = 1
    \/ /\ i > 1
       /\ LET prev_elem == stream[i - 1]
              elem == stream[i]
          IN  \/ prev_elem.page_num # elem.page_num
              \/ prev_elem.element_type # "image"
              \/ (elem.y_position - prev_elem.y_position) > RecoveryGap

lookback_height == 350
SnapTopMin == 50
SnapMinHeight == 50
SnapGap == 10

SnapshotContent(page_num) ==
    <<"[", "S", "N", "A", "P", "S", "H", "O", "T", ":", "P">>
    \o IntChars(page_num) \o <<"]">>

\* the clip's top without the header margin
SnapTopUnclamped(caption_y) == caption_y - lookback_height

SnapTop(caption_y) == Max(SnapTopMin, caption_y - lookback_height)
SnapBottom(caption_y) == Max(SnapTop(caption_y) + SnapMinHeight, caption_y - SnapGap)

\* _take_page_snapshot for the caption at index i: the synthetic Image, or
\* None when rendering the clip raises (page.render_ok is the outcome of
\* get_pixmap on that page).  Its bbox is the clip, kept by y0 and y1.
TakePageSnapshot(doc, page_num, caption_y, i) ==
    IF ~doc.pages[page_num].render_ok THEN NoElement
    ELSE [Element("image", SnapshotContent(page_num), page_num,
                  SnapTop(caption_y), <<page_num, "snap", i>>)
             EXCEPT !.bbox = [y0 |-> SnapTop(caption_y), y1 |-> SnapBottom(caption_y)]]

\* the loop left at the first snapshot that fails
RECURSIVE RecoverLoopStopAtFailure(_, _, _)
RecoverLoopStopAtFailure(st, i, doc) ==
    IF i > Len(st.stream) THEN st
    ELSE LET elem == st.stream[i]
             snapshot == TakePageSnapshot(doc, elem.page_num, elem.y_position, i)
             attempt == [index |-> i, page_num |-> elem.page_num,
                         y_position |-> elem.y_position]
         IN  IF /\ elem.element_type = "text"
                /\ IsCaption(elem.content)
                /\ NeedsRecovery(st.stream, i)
             THEN IF snapshot = NoElement
                  THEN [st EXCEPT !.log = Append(@, attempt)]
                  ELSE RecoverLoopStopAtFailure(
                           [stream |-> Append(st.stream, snapshot),
                            log |-> Append(st.log, attempt)],
                           i + 1, doc)
             ELSE RecoverLoopStopAtFailure(st, i + 1, doc)

\* the loop with the snapshot put in the list before its caption
RECURSIVE RecoverLoopInsertBefore(_, _, _)
RecoverLoopInsertBefore(st, i, doc) ==
    IF i > Len(st.stream) THEN st
    ELSE LET elem == st.stream[i]
             snapshot == TakePageSnapshot(doc, elem.page_num, elem.y_position, i)
             attempt == [index |-> i, page_num |-> elem.page_num,
                         y_position |-> elem.y_position]
         IN  IF /\ elem.element_type = "text"
                /\ IsCaption(elem.content)
                /\ NeedsRecovery(st.stream, i)
             THEN RecoverLoopInsertBefore(
                      [stream |-> IF snapshot # NoElement
                                  THEN SubSeq(st.stream, 1, i - 1) \o <<snapshot>>
                                       \o SubSeq(st.stream, i, Len(st.stream))
                                  ELSE st.stream,
                       log |-> Append(st.log, attempt)],
                      IF snapshot # NoElement THEN i + 2 ELSE i + 1, doc)
             ELSE RecoverLoopInsertBefore(st, i + 1, doc)

\* The loop of _recover_vector_figures from index i on, over the list it
\* appends to: st.stream is the list, st.log the captions for which a
\* snapshot was attempted (index in the list, page, y), in order.
RECURSIVE RecoverLoop(_, _, _)
RecoverLoop(st, i, doc) ==
    IF i > Len(st.stream) THEN st
    ELSE LET elem == st.stream[i]
             snapshot == TakePageSnapshot(doc, elem.page_num, elem.y_position, i)
             attempt == [index |-> i, page_num |-> elem.page_num,
                         y_position |-> elem.y_position]
         IN  IF /\ elem.element_type = "text"
                /\ IsCaption(elem.content)
                /\ NeedsRecovery(st.stream, i)
             THEN RecoverLoop(
                      [stream |-> IF snapshot # NoElement
                                  THEN Append(st.stream, snapshot)
                                  ELSE st.stream,
                       log |-> Append(st.log, attempt)],
                      i + 1, doc)
             ELSE RecoverLoop(st, i + 1, doc)

\* the list after the loop has run from index i on
RecoverFrom(stream, i, doc) ==
    RecoverLoop([stream |-> stream, log |-> <<>>], i, doc).stream

\* the attempts the pass prints
RecoveryAttempts(stream, doc) ==
    RecoverLoop([stream |-> stream, log |-> <<>>], 1, doc).log

RecoverVectorFigures(stream, doc) == RecoverFrom(stream, 1, doc)

---------------------------------------------------------------------------
(* SectionSegmenter: the TOC *)

\* The TOC artifact is [parse, has_tree, toc_tree]: parse is "ok" when
\* json.load returns an object and "bad" when it raises; a node of the tree
\* is [missing, title, page, level, children], missing naming the key the
\* entry lacks ("none": it has title, page and level).

\* re.match(r"^([\d.]+)\s+", title): group 1, or the title
TocSectionIdNoSpace(title) ==
    LET r == RunEnd(title, 1, DigitsAndDots)
    IN  IF r >= 1 THEN SubSeq(title, 1, r) ELSE title

TocSectionId(title) ==
    LET r == RunEnd(title, 1, DigitsAndDots)
    IN  IF r >= 1 /\ r + 1 <= Len(title) /\ title[r + 1] \in Spaces
        THEN SubSeq(title, 1, r)
        ELSE title

\* flatten(): one TOCEntry per node, parent before children
RECURSIVE FlattenToc(_)
FlattenToc(entries) ==
    IF entries = <<>> THEN <<>>
    ELSE LET entry == Head(entries)
         IN  <<[title |-> entry.title, page |-> entry.page,
                level |-> entry.level,
                section_id |-> TocSectionId(entry.title)]>>
             \o FlattenToc(entry.children)
             \o FlattenToc(Tail(entries))

\* entry["title"], entry["page"] or entry["level"] raises KeyError for some
\* node of the tree
RECURSIVE HasMalformedEntry(_)
HasMalformedEntry(entries) ==
    /\ entries # <<>>
    /\ \/ Head(entries).missing # "none"
       \/ HasMalformedEntry(Head(entries).children)
       \/ HasMalformedEntry(Tail(entries))

\* _load_toc raises: json.load fails, or an entry lacks a key.  A missing
\* "toc_tree" does not raise: data.get("toc_tree", []) is the empty list.
LoadTocRaisesOnMissingTree(t) ==
    \/ t.parse = "bad"
    \/ ~t.has_tree
    \/ HasMalformedEntry(t.toc_tree)

LoadTocRaises(t) ==
    \/ t.parse = "bad"
    \/ (t.has_tree /\ HasMalformedEntry(t.toc_tree))

\* flat_toc.sort with an anchor put before the anchors of its page
InsertByPageFirst(sorted, e) ==
    SelectSeq(sorted, LAMBDA x : x.page < e.page) \o <<e>>
    \o SelectSeq(sorted, LAMBDA x : x.page >= e.page)

\* flat_toc.sort(key=lambda e: e.page): stable
InsertByPage(sorted, e) ==
    SelectSeq(sorted, LAMBDA x : x.page <= e.page) \o <<e>>
    \o SelectSeq(sorted, LAMBDA x : x.page > e.page)

RECURSIVE SortByPageInto(_, _)
SortByPageInto(sorted, rest) ==
    IF rest = <<>> THEN sorted
    ELSE SortByPageInto(InsertByPage(sorted, Head(rest)), Tail(rest))

\* flat_toc after _load_toc returns
LoadToc(t) ==
    SortByPageInto(<<>>, FlattenToc(IF t.has_tree THEN t.toc_tree ELSE <<>>))

---------------------------------------------------------------------------
(* SectionSegmenter: header detection and segmentation *)

MaxHeaderLen == 150

\* re.search(r"\.\.+\s*\d+$", text) on stripped text: a run of digits at the
\* end, whitespace before it or none, two dots or more before that
DotLeaderEnd(text) ==
    LET n == Len(text)
        k == RunStart(text, n, Digits)
        w == RunStart(text, k - 1, Spaces)
    IN  /\ k <= n
        /\ w - 2 >= 1
        /\ text[w - 1] = "."
        /\ text[w - 2] = "."

\* re.match(r"^(\d+(?:\.\d+)*)\s+\S", text): group 1, or None.  What follows
\* the group must be whitespace, so only the longest numeral can match.
HeaderNumeral(text) ==
    LET e == DottedNumeralEnd(text, 1)
        w == RunEnd(text, e + 1, Spaces)
    IN  IF e >= 1 /\ w >= e + 1 /\ w + 1 <= Len(text)
        THEN SubSeq(text, 1, e)
        ELSE NoneVal

\* _detect_section_header: the detected section id, or None
DetectNoDotLeaderCheck(content, flat_toc) ==
    LET text == Strip(content)
        potential_id == HeaderNumeral(text)
    IN  IF Len(text) > MaxHeaderLen THEN NoneVal
        ELSE IF /\ potential_id # NoneVal
                /\ \E k \in 1..Len(flat_toc) : flat_toc[k].section_id = potential_id
        THEN potential_id
        ELSE NoneVal

\* detection that accepts a numeral no anchor carries
DetectWithoutTocCheck(content, flat_toc) ==
    LET text == Strip(content)
        potential_id == HeaderNumeral(text)
    IN  IF Len(text) > MaxHeaderLen THEN NoneVal
        ELSE IF DotLeaderEnd(text) THEN NoneVal
        ELSE potential_id

DetectSectionHeader(content, flat_toc) ==
    LET text == Strip(content)
        potential_id == HeaderNumeral(text)
    IN  IF Len(text) > MaxHeaderLen THEN NoneVal
        ELSE IF DotLeaderEnd(text) THEN NoneVal
        ELSE IF /\ potential_id # NoneVal
                /\ \E k \in 1..Len(flat_toc) : flat_toc[k].section_id = potential_id
        THEN potential_id
        ELSE NoneVal

\* a dict that puts a new key before the keys it has
SectionsAppendFront(secs, key, element) ==
    IF \E k \in 1..Len(secs) : secs[k].id = key
    THEN [k \in 1..Len(secs) |->
             IF secs[k].id = key
             THEN [secs[k] EXCEPT !.elems = Append(@, element)]
             ELSE secs[k]]
    ELSE <<[id |-> key, elems |-> <<element>>]>> \o secs

\* sections[key].append(element), the key created at its first use.  The
\* dict is a sequence of [id, elems] in key insertion order.
SectionsAppend(secs, key, element) ==
    IF \E k \in 1..Len(secs) : secs[k].id = key
    THEN [k \in 1..Len(secs) |->
             IF secs[k].id = key
             THEN [secs[k] EXCEPT !.elems = Append(@, element)]
             ELSE secs[k]]
    ELSE Append(secs, [id |-> key, elems |-> <<element>>])

\* the loop with a detected header left in the section that was current
RECURSIVE SegmentFromLateSwitch(_, _, _)
SegmentFromLateSwitch(st, i, flat_toc) ==
    IF i > Len(st.stream) THEN st
    ELSE LET element == st.stream[i]
             detected_section ==
                 IF element.element_type = "text"
                 THEN DetectSectionHeader(element.content, flat_toc)
                 ELSE NoneVal
             cur == IF detected_section # NoneVal THEN detected_section ELSE st.cur
             marked ==
                 IF detected_section # NoneVal
                 THEN [element EXCEPT !.element_type = "header", !.section_id = st.cur]
                 ELSE [element EXCEPT !.section_id = st.cur]
         IN  SegmentFromLateSwitch(
                 [cur |-> cur,
                  secs |-> SectionsAppend(st.secs, st.cur, marked),
                  stream |-> [st.stream EXCEPT ![i] = marked]],
                 i + 1, flat_toc)

\* the loop with a detected header's content replaced by its section id
RECURSIVE SegmentFromRetitled(_, _, _)
SegmentFromRetitled(st, i, flat_toc) ==
    IF i > Len(st.stream) THEN st
    ELSE LET element == st.stream[i]
             detected_section ==
                 IF element.element_type = "text"
                 THEN DetectSectionHeader(element.content, flat_toc)
                 ELSE NoneVal
             cur == IF detected_section # NoneVal THEN detected_section ELSE st.cur
             marked ==
                 IF detected_section # NoneVal
                 THEN [element EXCEPT !.element_type = "header", !.section_id = cur,
                                      !.content = cur]
                 ELSE [element EXCEPT !.section_id = cur]
         IN  SegmentFromRetitled(
                 [cur |-> cur,
                  secs |-> SectionsAppend(st.secs, cur, marked),
                  stream |-> [st.stream EXCEPT ![i] = marked]],
                 i + 1, flat_toc)

\* The loop of segment() from element i on.  st is [cur, secs, stream]:
\* current_section_id, the dict, and the stream with the elements seen so
\* far as the loop left them (the loop writes to the stream's own objects).
RECURSIVE SegmentFrom(_, _, _)
SegmentFrom(st, i, flat_toc) ==
    IF i > Len(st.stream) THEN st
    ELSE LET element == st.stream[i]
             detected_section ==
                 IF element.element_type = "text"
                 THEN DetectSectionHeader(element.content, flat_toc)
                 ELSE NoneVal
             cur == IF detected_section # NoneVal THEN detected_section ELSE st.cur
             marked ==
                 IF detected_section # NoneVal
                 THEN [element EXCEPT !.element_type = "header", !.section_id = cur]
                 ELSE [element EXCEPT !.section_id = cur]
         IN  SegmentFrom([cur |-> cur,
                          secs |-> SectionsAppend(st.secs, cur, marked),
                          stream |-> [st.stream EXCEPT ![i] = marked]],
                         i + 1, flat_toc)

Preamble == <<"_", "p", "r", "e", "a", "m", "b", "l", "e">>

\* segment() with the "_preamble" key made before the loop
SegmentSeededPreamble(stream, flat_toc) ==
    SegmentFrom([cur |-> Preamble, secs |-> <<[id |-> Preamble, elems |-> <<>>]>>,
                 stream |-> stream], 1, flat_toc)

\* segment(stream): [secs, stream] (an empty stream returns {} at once)
Segment(stream, flat_toc) ==
    SegmentFrom([cur |-> Preamble, secs |-> <<>>, stream |-> stream], 1, flat_toc)

---------------------------------------------------------------------------
(* build_stream *)

\* load(), lines 84-100: open the document, extract every page, sort.
\* fitz.open raising leaves loader.doc None; a page whose text cannot be
\* read raises with the handle open.  Either way build_stream's finally
\* runs loader.close().
BsLoadExtract ==
    /\ bsPc = "start"
    /\ IF ~pdf.openable
       THEN /\ bsPc' = "raised"
            /\ bsResult' = [kind |-> "raised"]
            /\ UNCHANGED <<docOpen, globalStream>>
       ELSE IF \E p \in 1..Len(pdf.pages) : ~pdf.pages[p].readable
       THEN /\ bsPc' = "raised"
            /\ bsResult' = [kind |-> "raised"]
            /\ docOpen' = "closed"
            /\ UNCHANGED globalStream
       ELSE /\ bsPc' = "sorted"
            /\ docOpen' = "open"
            /\ globalStream' = SortStream(AllElements(pdf))
            /\ UNCHANGED bsResult
    /\ UNCHANGED <<pdf, toc, recoveryLog, firstResult, flatToc, sections>>
    /\ UNCHANGED <<hyVars, plVars, mmVars, mcVars>>

\* load(), line 103: the recovery pass
BsLoadRecover ==
    /\ bsPc = "sorted"
    /\ bsPc' = "recovered"
    /\ globalStream' = RecoverVectorFigures(globalStream, pdf)
    /\ recoveryLog' = recoveryLog \o RecoveryAttempts(globalStream, pdf)
    /\ UNCHANGED <<pdf, toc, docOpen, firstResult, flatToc, sections, bsResult>>
    /\ UNCHANGED <<hyVars, plVars, mmVars, mcVars>>

\* load(), lines 106-108: sort again and return the stream
BsLoadResort ==
    /\ bsPc = "recovered"
    /\ bsPc' = "loaded"
    /\ globalStream' = SortStream(globalStream)
    /\ firstResult' = globalStream'
    /\ UNCHANGED <<pdf, toc, docOpen, recoveryLog, flatToc, sections, bsResult>>
    /\ UNCHANGED <<hyVars, plVars, mmVars, mcVars>>

\* SectionSegmenter(toc_path): _load_toc, which may raise
BsNewSegmenter ==
    /\ bsPc = "loaded"
    /\ IF LoadTocRaises(toc)
       THEN /\ bsPc' = "raised"
            /\ bsResult' = [kind |-> "raised"]
            /\ docOpen' = "closed"
            /\ UNCHANGED flatToc
       ELSE /\ bsPc' = "segmenter"
            /\ flatToc' = LoadToc(toc)
            /\ UNCHANGED <<docOpen, bsResult>>
    /\ UNCHANGED <<pdf, toc, globalStream, recoveryLog, firstResult, sections>>
    /\ UNCHANGED <<hyVars, plVars, mmVars, mcVars>>

\* segmenter.segment(stream), return sections, finally loader.close()
BsSegment ==
    /\ bsPc = "segmenter"
    /\ bsPc' = "returned"
    /\ LET r == Segment(globalStream, flatToc)
       IN  /\ sections' = r.secs
           /\ globalStream' = r.stream
           /\ bsResult' = [kind |-> "returned", value |-> r.secs]
    /\ docOpen' = "closed"
    /\ UNCHANGED <<pdf, toc, recoveryLog, firstResult, flatToc>>
    /\ UNCHANGED <<hyVars, plVars, mmVars, mcVars>>

NextBuildStream ==
    \/ BsLoadExtract
    \/ BsLoadRecover
    \/ BsLoadResort
    \/ BsNewSegmenter
    \/ BsSegment

\* build_stream before it starts, on a document and a TOC
BsStart(doc, t) ==
    /\ pdf = doc
    /\ toc = t
    /\ bsPc = "start"
    /\ docOpen = "never"
    /\ globalStream = <<>>
    /\ recoveryLog = <<>>
    /\ firstResult = <<>>
    /\ flatToc = <<>>
    /\ sections = <<>>
    /\ bsResult = [kind |-> "none"]

\* build_stream is not run
BsIdle ==
    /\ pdf = [openable |-> TRUE, pages |-> <<>>]
    /\ toc = [parse |-> "ok", has_tree |-> TRUE, toc_tree |-> <<>>]
    /\ bsPc = "idle"
    /\ docOpen = "never"
    /\ globalStream = <<>>
    /\ recoveryLog = <<>>
    /\ firstResult = <<>>
    /\ flatToc = <<>>
    /\ sections = <<>>
    /\ bsResult = [kind |-> "none"]

---------------------------------------------------------------------------
(* HybridPageIngestor *)

Unknown == <<"U", "n", "k", "n", "o", "w", "n">>

\* re.match(r"^([\d.]+)", title): group 1, or "Unknown"
HySectionId(title) ==
    LET r == RunEnd(title, 1, DigitsAndDots)
    IN  IF r >= 1 THEN SubSeq(title, 1, r) ELSE Unknown

\* flatten() of _map_pages_to_sections: {"page", "id"} per node, parent
\* before children
RECURSIVE HyFlatten(_)
HyFlatten(items) ==
    IF items = <<>> THEN <<>>
    ELSE LET item == Head(items)
         IN  <<[page |-> item.page, id |-> HySectionId(item.title)]>>
             \o HyFlatten(item.children)
             \o HyFlatten(Tail(items))

\* item["title"] or item["page"] raises KeyError for some node
RECURSIVE HyMalformedEntry(_)
HyMalformedEntry(items) ==
    /\ items # <<>>
    /\ \/ Head(items).missing \in {"title", "page"}
       \/ HyMalformedEntry(Head(items).children)
       \/ HyMalformedEntry(Tail(items))

HyTree(t) == IF t.has_tree THEN t.toc_tree ELSE <<>>

\* _map_pages_to_sections raises: json.load fails, an entry lacks a key, or
\* there is no entry at all (entries[-1] of an empty list)
MapPagesRaises(t) ==
    \/ t.parse = "bad"
    \/ HyMalformedEntry(HyTree(t))
    \/ HyTree(t) = <<>>

PageBuffer == 50

\* toc_idx (1-based: the number of entries consumed) once page p is filled.
\* The pointer of the while loop never moves back and p only grows, so it
\* stands before the first entry whose page is greater than p.
PointerAfterStrict(entries, p) ==
    LET later == {k \in 1..Len(entries) : entries[k].page >= p}
    IN  IF later = {} THEN Len(entries)
        ELSE (CHOOSE k \in later : \A j \in later : k <= j) - 1

PointerAfter(entries, p) ==
    LET later == {k \in 1..Len(entries) : entries[k].page > p}
    IN  IF later = {} THEN Len(entries)
        ELSE (CHOOSE k \in later : \A j \in later : k <= j) - 1

\* _map_pages_to_sections for a TOC it does not raise on: page_map[p] is
\* last_id, the id of the entry consumed last
MapPagesToSections(t) ==
    LET entries == SortByPageInto(<<>>, HyFlatten(HyTree(t)))
        max_page == entries[Len(entries)].page + PageBuffer
    IN  [p \in 1..max_page |->
            IF PointerAfter(entries, p) = 0 THEN Preamble
            ELSE entries[PointerAfter(entries, p)].id]

VisionTokens ==
    {FigureWord, <<"F", "i", "g", ".">>, <<"T", "a", "b", "l", "e">>}

\* bool(re.search(r"(Figure|Fig\.|Table)\s+\d+", text))
TriggerIgnoringCase(text) ==
    \E i \in 1..Len(text) :
        \E tok \in VisionTokens \cup {<<"f", "i", "g", "u", "r", "e">>, <<"t", "a", "b", "l", "e">>} :
            LET a == i + Len(tok)
                w == RunEnd(text, a, Spaces)
            IN  /\ StartsAt(text, i, tok)
                /\ w >= a
                /\ w + 1 <= Len(text)
                /\ text[w + 1] \in Digits

ShouldTriggerVision(text) ==
    \E i \in 1..Len(text) :
        \E tok \in VisionTokens :
            LET a == i + Len(tok)
                w == RunEnd(text, a, Spaces)
            IN  /\ StartsAt(text, i, tok)
                /\ w >= a
                /\ w + 1 <= Len(text)
                /\ text[w + 1] \in Digits

\* text.split('\n')
RECURSIVE SplitLines(_)
SplitLines(text) ==
    LET e == RunEnd(text, 1, {c \in {text[k] : k \in 1..Len(text)} : c # "\n"})
    IN  IF e = Len(text) THEN <<text>>
        ELSE <<SubSeq(text, 1, e)>> \o SplitLines(SubSeq(text, e + 2, Len(text)))

CleanNoise ==
    << NOISE_PATTERNS[1],
       <<"D","o","c","u","m","e","n","t"," ","n","u","m","b","e","r">>,
       <<"B","o","s","c","h"," ","S","e","n","s","o","r","t","e","c">> >>

\* _clean_text
CleanText(text) ==
    JoinLines(SelectSeq(SplitLines(text),
                        LAMBDA line : \A k \in 1..Len(CleanNoise) :
                                         ~Contains(line, CleanNoise[k])))

VisionFailed ==
    <<"[", "V", "I", "S", "I", "O", "N", " ", "F", "A", "I", "L", "E", "D", " ",
      "M", "E", "S", "S", "A", "G", "E", "]", "\n", "\n">>

\* a failed vision call that returns the marker alone
ProcessWithVisionMarkerOnly(page, page_num) ==
    IF page.vision_ok
    THEN <<"<", "v", "i", "s", "i", "o", "n", ":">> \o IntChars(page_num) \o <<">">>
    ELSE VisionFailed

\* _process_with_vision when get_pixmap succeeded: the model's answer (an
\* opaque text, stripped), or the failure marker and the raw text
ProcessWithVision(page, page_num) ==
    IF page.vision_ok
    THEN <<"<", "v", "i", "s", "i", "o", "n", ":">> \o IntChars(page_num) \o <<">">>
    ELSE VisionFailed \o page.raw_text

\* a buffer that takes a new content at its front
BufferPrepend(bufs, key, content) ==
    IF \E k \in 1..Len(bufs) : bufs[k].id = key
    THEN [k \in 1..Len(bufs) |->
             IF bufs[k].id = key
             THEN [bufs[k] EXCEPT !.contents = <<content>> \o @]
             ELSE bufs[k]]
    ELSE Append(bufs, [id |-> key, contents |-> <<content>>])

\* section_buffers[key].append(content), the key created at its first use
BufferAppend(bufs, key, content) ==
    IF \E k \in 1..Len(bufs) : bufs[k].id = key
    THEN [k \in 1..Len(bufs) |->
             IF bufs[k].id = key
             THEN [bufs[k] EXCEPT !.contents = Append(@, content)]
             ELSE bufs[k]]
    ELSE Append(bufs, [id |-> key, contents |-> <<content>>])

\* process_document has raised: run_master_pipeline closes the ingestor in
\* its finally, the __main__ block does not
HyRaise ==
    /\ hyPc' = "raised"
    /\ hyDocOpen' = IF hyIn.caller = "master" THEN "closed" ELSE hyDocOpen

\* HybridPageIngestor(pdf, output_dir): fitz.open, mkdir, ImageTranslator()
HyConstruct ==
    /\ hyPc = "start"
    /\ IF hyIn.ctor = "open_fails"
       THEN /\ hyPc' = "raised"
            /\ UNCHANGED hyDocOpen
       ELSE IF hyIn.ctor = "fails_after_open"
       THEN /\ hyPc' = "raised"
            /\ hyDocOpen' = "open"
       ELSE /\ hyPc' = "constructed"
            /\ hyDocOpen' = "open"
    /\ UNCHANGED <<hyIn, pageMap, hyIdx, sectionBuffers, pathLog, genFiles>>
    /\ UNCHANGED <<bsVars, plVars, mmVars, mcVars>>

\* process_document, line 45: page_to_section
HyMapPages ==
    /\ hyPc = "constructed"
    /\ IF MapPagesRaises(hyIn.toc)
       THEN /\ HyRaise
            /\ UNCHANGED pageMap
       ELSE /\ hyPc' = "pages"
            /\ pageMap' = MapPagesToSections(hyIn.toc)
            /\ UNCHANGED hyDocOpen
    /\ hyIdx' = 1
    /\ UNCHANGED <<hyIn, sectionBuffers, pathLog, genFiles>>
    /\ UNCHANGED <<bsVars, plVars, mmVars, mcVars>>

\* process_document, lines 53-87: one turn of the page loop
HyProcessPage ==
    /\ hyPc = "pages"
    /\ hyIdx <= Len(hyIn.pages)
    /\ LET page_num == hyIdx
           page == hyIn.pages[hyIdx]
           current_section_id ==
               IF page_num <= Len(pageMap) THEN pageMap[page_num] ELSE Unknown
           skipped ==
               \/ (hyIn.target_page # 0 /\ page_num # hyIn.target_page)
               \/ (hyIn.target_section # NoneVal
                     /\ current_section_id # hyIn.target_section)
           use_vision == ShouldTriggerVision(page.raw_text)
           final_content ==
               IF use_vision THEN ProcessWithVision(page, page_num)
               ELSE CleanText(page.raw_text)
       IN  IF skipped
           THEN /\ hyIdx' = hyIdx + 1
                /\ UNCHANGED <<hyPc, hyDocOpen, sectionBuffers, pathLog>>
           ELSE IF use_vision /\ ~page.pixmap_ok
           THEN /\ HyRaise
                /\ pathLog' = Append(pathLog, [page |-> page_num, paths |-> {"vision"}])
                /\ UNCHANGED <<hyIdx, sectionBuffers>>
           ELSE /\ hyIdx' = hyIdx + 1
                /\ sectionBuffers' =
                       BufferAppend(sectionBuffers, current_section_id, final_content)
                /\ pathLog' = Append(pathLog,
                       [page |-> page_num,
                        paths |-> IF use_vision THEN {"vision"} ELSE {"text"}])
                /\ UNCHANGED <<hyPc, hyDocOpen>>
    /\ UNCHANGED <<hyIn, pageMap, genFiles>>
    /\ UNCHANGED <<bsVars, plVars, mmVars, mcVars>>

\* text.replace(a, ""): the leftmost occurrence is cut out, then those of
\* the text after it
RECURSIVE RemoveAll(_, _)
RemoveAll(text, a) ==
    LET at == {i \in 1..Len(text) : StartsAt(text, i, a)}
        first == CHOOSE i \in at : \A j \in at : i <= j
    IN  IF at = {} THEN text
        ELSE SubSeq(text, 1, first - 1)
             \o RemoveAll(SubSeq(text, first + Len(a), Len(text)), a)

\* The end of a match of Revision_\d+\.\d+_.* that starts at i (0: none);
\* .* runs to the end of the line
RevisionMatchEnd(text, i) ==
    LET a == i + Len(NOISE_PATTERNS[5])
        d1 == RunEnd(text, a, Digits)
        d2 == RunEnd(text, d1 + 2, Digits)
    IN  IF /\ StartsAt(text, i, NOISE_PATTERNS[5])
           /\ d1 >= a
           /\ d1 + 1 <= Len(text) /\ text[d1 + 1] = "."
           /\ d2 >= d1 + 2
           /\ d2 + 1 <= Len(text) /\ text[d2 + 1] = "_"
        THEN RunEnd(text, d2 + 2, {c \in {text[k] : k \in 1..Len(text)} : c # "\n"})
        ELSE 0

\* re.sub(r"Revision_\d+\.\d+_.*", "", text): the leftmost match is cut
\* out, then those of the text after it
RECURSIVE RemoveRevisions(_)
RemoveRevisions(text) ==
    LET at == {i \in 1..Len(text) : RevisionMatchEnd(text, i) > 0}
        first == CHOOSE i \in at : \A j \in at : i <= j
    IN  IF at = {} THEN text
        ELSE SubSeq(text, 1, first - 1)
             \o RemoveRevisions(SubSeq(text, RevisionMatchEnd(text, first) + 1, Len(text)))

\* _post_process_cleanup
PostProcessCleanup(text) == RemoveRevisions(RemoveAll(text, NOISE_PATTERNS[8]))

\* "\n\n".join(contents)
RECURSIVE JoinContents(_)
JoinContents(contents) ==
    IF contents = <<>> THEN <<>>
    ELSE IF Len(contents) = 1 THEN contents[1]
    ELSE contents[1] \o <<"\n", "\n">> \o JoinContents(Tail(contents))

\* sec_id.replace(".", "_")
SafeId(sec_id) == [k \in 1..Len(sec_id) |-> IF sec_id[k] = "." THEN "_" ELSE sec_id[k]]

\* the write loop that skips only the "_preamble" buffer
RECURSIVE FilesOfKeepingUnknown(_)
FilesOfKeepingUnknown(bufs) ==
    IF bufs = <<>> THEN <<>>
    ELSE LET b == Head(bufs)
         IN  IF b.id = Preamble THEN FilesOfKeepingUnknown(Tail(bufs))
             ELSE <<[path |-> <<"S", "e", "c", "t", "i", "o", "n", "_">>
                                \o SafeId(b.id) \o <<".", "m", "d">>,
                     text |-> PostProcessCleanup(JoinContents(b.contents))]>>
                  \o FilesOfKeepingUnknown(Tail(bufs))

\* the files the write loop makes of the buffers, in buffer order
RECURSIVE FilesOf(_)
FilesOf(bufs) ==
    IF bufs = <<>> THEN <<>>
    ELSE LET b == Head(bufs)
         IN  IF b.id = Unknown \/ b.id = Preamble THEN FilesOf(Tail(bufs))
             ELSE <<[path |-> <<"S", "e", "c", "t", "i", "o", "n", "_">>
                                \o SafeId(b.id) \o <<".", "m", "d">>,
                     text |-> PostProcessCleanup(JoinContents(b.contents))]>>
                  \o FilesOf(Tail(bufs))

\* process_document, lines 89-109, and the caller's close(): the write loop
\* (open() raising at the first file when the directory is not writable),
\* the return, then ingestor.close() in both callers
HyWrite ==
    /\ hyPc = "pages"
    /\ hyIdx > Len(hyIn.pages)
    /\ IF ~hyIn.write_ok /\ FilesOf(sectionBuffers) # <<>>
       THEN /\ HyRaise
            /\ UNCHANGED genFiles
       ELSE /\ hyPc' = "returned"
            /\ genFiles' = FilesOf(sectionBuffers)
            /\ hyDocOpen' = "closed"
    /\ UNCHANGED <<hyIn, pageMap, hyIdx, sectionBuffers, pathLog>>
    /\ UNCHANGED <<bsVars, plVars, mmVars, mcVars>>

NextHybrid ==
    \/ HyConstruct
    \/ HyMapPages
    \/ HyProcessPage
    \/ HyWrite

\* a run of the ingestor before it starts
HyStart(in) ==
    /\ hyIn = in
    /\ hyPc = "start"
    /\ hyDocOpen = "never"
    /\ pageMap = <<>>
    /\ hyIdx = 0
    /\ sectionBuffers = <<>>
    /\ pathLog = <<>>
    /\ genFiles = <<>>

\* the ingestor is not run
HyIdle ==
    /\ hyIn = [caller |-> "none"]
    /\ hyPc = "idle"
    /\ hyDocOpen = "never"
    /\ pageMap = <<>>
    /\ hyIdx = 0
    /\ sectionBuffers = <<>>
    /\ pathLog = <<>>
    /\ genFiles = <<>>

---------------------------------------------------------------------------
(* IngestionPipeline.process_directory *)

\* process_file raises: the output is not there already (or force is set)
\* and reading, atomizing or writing fails
ProcessFileRaises(f, force) ==
    /\ ~(f.atomized /\ ~force)
    /\ f.fails

\* the body of the collection loop with every result appended
CollectResultUnguarded(out, file, raised) == Append(out, file)

\* the body of the collection loop: future.result() appended to
\* output_paths, or the exception caught.  A path atomized_<stem>.json is
\* written as the index of its file in md_files.
CollectResult(out, file, raised) ==
    IF raised THEN out ELSE Append(out, file)

\* process_directory, lines 70-75: the directory check and the glob
PlEnter ==
    /\ plPc = "start"
    /\ plPc' = IF plIn.dir_ok THEN "submitting" ELSE "raised"
    /\ UNCHANGED <<plIn, plSubmitted, plQueue, plRunning, plDone,
                   plFinishedFirst, plYielded, outputPaths, plErrors>>
    /\ UNCHANGED <<bsVars, hyVars, mmVars, mcVars>>

\* one executor.submit of the dict comprehension, in md_files order
PlSubmit ==
    /\ plPc = "submitting"
    /\ plSubmitted < Len(plIn.files)
    /\ plSubmitted' = plSubmitted + 1
    /\ plQueue' = Append(plQueue, plSubmitted + 1)
    /\ UNCHANGED <<plIn, plPc, plRunning, plDone, plFinishedFirst, plYielded,
                   outputPaths, plErrors>>
    /\ UNCHANGED <<bsVars, hyVars, mmVars, mcVars>>

\* a worker thread takes the next work item; the executor has at most
\* max_workers threads
PlWorkerStart ==
    /\ plQueue # <<>>
    /\ Cardinality(plRunning) < plIn.max_workers
    /\ plRunning' = plRunning \cup {Head(plQueue)}
    /\ plQueue' = Tail(plQueue)
    /\ UNCHANGED <<plIn, plPc, plSubmitted, plDone, plFinishedFirst, plYielded,
                   outputPaths, plErrors>>
    /\ UNCHANGED <<bsVars, hyVars, mmVars, mcVars>>

\* process_file returns or raises in its worker; the future is finished
PlWorkerFinish(t) ==
    /\ t \in plRunning
    /\ plRunning' = plRunning \ {t}
    /\ plDone' = Append(plDone, t)
    /\ UNCHANGED <<plIn, plPc, plSubmitted, plQueue, plFinishedFirst, plYielded,
                   outputPaths, plErrors>>
    /\ UNCHANGED <<bsVars, hyVars, mmVars, mcVars>>

\* as_completed(future_to_file) is entered: it notes the futures that are
\* finished already
PlAsCompleted ==
    /\ plPc = "submitting"
    /\ plSubmitted = Len(plIn.files)
    /\ plPc' = "collecting"
    /\ plFinishedFirst' = {plDone[k] : k \in 1..Len(plDone)}
    /\ UNCHANGED <<plIn, plSubmitted, plQueue, plRunning, plDone, plYielded,
                   outputPaths, plErrors>>
    /\ UNCHANGED <<bsVars, hyVars, mmVars, mcVars>>

\* The futures as_completed may yield next: any of those it found finished
\* (it iterates a set of them), and after these the earliest finished of
\* the others
YieldNext ==
    LET seen == {plYielded[k] : k \in 1..Len(plYielded)}
        later == SelectSeq(plDone, LAMBDA t : t \notin plFinishedFirst /\ t \notin seen)
    IN  IF plFinishedFirst \ seen # {} THEN plFinishedFirst \ seen
        ELSE IF later # <<>> THEN {Head(later)}
        ELSE {}

\* one turn of the collection loop, lines 81-86
PlCollect ==
    /\ plPc = "collecting"
    /\ \E t \in YieldNext :
           LET raised == ProcessFileRaises(plIn.files[t], plIn.force)
           IN  /\ plYielded' = Append(plYielded, t)
               /\ outputPaths' = CollectResult(outputPaths, t, raised)
               /\ plErrors' = IF raised THEN plErrors \cup {t} ELSE plErrors
    /\ UNCHANGED <<plIn, plPc, plSubmitted, plQueue, plRunning, plDone,
                   plFinishedFirst>>
    /\ UNCHANGED <<bsVars, hyVars, mmVars, mcVars>>

\* as_completed is exhausted; the with block shuts the executor down and
\* process_directory returns output_paths
PlReturn ==
    /\ plPc = "collecting"
    /\ Len(plYielded) = Len(plIn.files)
    /\ plPc' = "returned"
    /\ UNCHANGED <<plIn, plSubmitted, plQueue, plRunning, plDone,
                   plFinishedFirst, plYielded, outputPaths, plErrors>>
    /\ UNCHANGED <<bsVars, hyVars, mmVars, mcVars>>

NextPool ==
    \/ PlEnter
    \/ PlSubmit
    \/ PlWorkerStart
    \/ \E t \in plRunning : PlWorkerFinish(t)
    \/ PlAsCompleted
    \/ PlCollect
    \/ PlReturn

\* a run of process_directory before it starts
PlStart(in) ==
    /\ plIn = in
    /\ plPc = "start"
    /\ plSubmitted = 0
    /\ plQueue = <<>>
    /\ plRunning = {}
    /\ plDone = <<>>
    /\ plFinishedFirst = {}
    /\ plYielded = <<>>
    /\ outputPaths = <<>>
    /\ plErrors = {}

\* process_directory is not run
PlIdle ==
    /\ plIn = [dir_ok |-> TRUE, files |-> <<>>, force |-> FALSE, max_workers |-> 1]
    /\ plPc = "idle"
    /\ plSubmitted = 0
    /\ plQueue = <<>>
    /\ plRunning = {}
    /\ plDone = <<>>
    /\ plFinishedFirst = {}
    /\ plYielded = <<>>
    /\ outputPaths = <<>>
    /\ plErrors = {}

---------------------------------------------------------------------------
(* MultimodalIngestor.ingest_document *)

PreviewLen == 100

\* MultimodalIngestor._clean_text
MmCleanText(text) ==
    LET stripped == [k \in 1..Len(SplitLines(text)) |-> Strip(SplitLines(text)[k])]
    IN  JoinLines(SelectSeq(stripped,
            LAMBDA l : /\ l # <<>>
                       /\ ~Contains(l, CleanNoise[3])
                       /\ ~Contains(l, CleanNoise[1])
                       /\ ~StartsAt(l, 1, CleanNoise[2])))

\* text[:100].replace("\n", " ") + "..."
TextPreview(text) ==
    LET head == SubSeq(text, 1, IF Len(text) < PreviewLen THEN Len(text) ELSE PreviewLen)
    IN  [k \in 1..Len(head) |-> IF head[k] = "\n" THEN " " ELSE head[k]]
        \o <<".", ".", ".">>

\* ingest_document, line 32: fitz.open
MmOpen ==
    /\ mmPc = "start"
    /\ IF mmIn.openable
       THEN /\ mmPc' = "pages"
            /\ mmDocOpen' = "open"
            /\ mmIdx' = 1
       ELSE /\ mmPc' = "raised"
            /\ UNCHANGED <<mmDocOpen, mmIdx>>
    /\ UNCHANGED <<mmIn, mmImages, mmTexts, mmManifest>>
    /\ UNCHANGED <<bsVars, hyVars, plVars, mcVars>>

\* ingest_document, lines 44-78: one turn of the page loop.  A failed
\* render is caught and the page skipped; a failed text write is not caught
MmPage ==
    /\ mmPc = "pages"
    /\ mmIdx <= Len(mmIn.pages)
    /\ LET page_num == mmIdx
           page == mmIn.pages[mmIdx]
           text == MmCleanText(page.raw_text)
       IN  IF ~page.render_ok
           THEN /\ mmIdx' = mmIdx + 1
                /\ UNCHANGED <<mmPc, mmImages, mmTexts, mmManifest>>
           ELSE IF ~page.write_ok
           THEN /\ mmPc' = "raised"
                /\ mmImages' = Append(mmImages, page_num)
                /\ UNCHANGED <<mmIdx, mmTexts, mmManifest>>
           ELSE /\ mmIdx' = mmIdx + 1
                /\ mmImages' = Append(mmImages, page_num)
                /\ mmTexts' = Append(mmTexts, [page_num |-> page_num, text |-> text])
                /\ mmManifest' =
                       [mmManifest EXCEPT !.pages =
                           Append(@, [page_num |-> page_num,
                                      text_preview |-> TextPreview(text)])]
                /\ UNCHANGED mmPc
    /\ UNCHANGED <<mmIn, mmDocOpen>>
    /\ UNCHANGED <<bsVars, hyVars, plVars, mcVars>>

\* ingest_document, lines 80-88: doc.close(), then the manifest is saved
MmFinish ==
    /\ mmPc = "pages"
    /\ mmIdx > Len(mmIn.pages)
    /\ mmDocOpen' = "closed"
    /\ IF mmIn.manifest_ok
       THEN /\ mmPc' = "returned"
            /\ mmManifest' = [mmManifest EXCEPT !.saved = TRUE]
       ELSE /\ mmPc' = "raised"
            /\ UNCHANGED mmManifest
    /\ UNCHANGED <<mmIn, mmIdx, mmImages, mmTexts>>
    /\ UNCHANGED <<bsVars, hyVars, plVars, mcVars>>

NextMultimodal ==
    \/ MmOpen
    \/ MmPage
    \/ MmFinish

\* a run of ingest_document before it starts
MmStart(in) ==
    /\ mmIn = in
    /\ mmPc = "start"
    /\ mmDocOpen = "never"
    /\ mmIdx = 0
    /\ mmImages = <<>>
    /\ mmTexts = <<>>
    /\ mmManifest = [pages |-> <<>>, saved |-> FALSE]

\* ingest_document is not run
MmIdle ==
    /\ mmIn = [openable |-> TRUE, pages |-> <<>>, manifest_ok |-> TRUE]
    /\ mmPc = "idle"
    /\ mmDocOpen = "never"
    /\ mmIdx = 0
    /\ mmImages = <<>>
    /\ mmTexts = <<>>
    /\ mmManifest = [pages |-> <<>>, saved |-> FALSE]

---------------------------------------------------------------------------
(* SimpleMemMCPServer.run *)

\* A line of stdin is [json, size, method, has_id, tool, search_raises]:
\* json is what the line is after decode and strip ("blank", "invalid", an
\* "array" or an "object"); size is its length in bytes before the newline;
\* for an object, method is msg.get("method"), has_id says whether "id" is a
\* key, tool is params.get("name") and search_raises says whether the
\* embedder or the table search raises on its query.  The id of the request
\* on line k is k.

\* asyncio.StreamReader(): limit = 2 ** 16; readline raises ValueError for a
\* line with more bytes than that before its newline
StreamLimit == 65536

\* search(): the error entry when there is no table, else the matches
Search(table, line) ==
    IF table = "missing"
    THEN <<[error |-> "Database not initialized"]>>
    ELSE <<[content |-> "c", image_path |-> "i", source |-> "s",
            section |-> "n", score |-> 1]>>

\* the f-string of the content loop reads item['source'], item['section'],
\* item['content'] and item['image_path']: KeyError when one is missing
FormatRaises(results) ==
    \E k \in 1..Len(results) :
        ~({"source", "section", "content", "image_path"} \subseteq DOMAIN results[k])

\* the body of the try for the line at index k: [out, err], out the
\* response _send_json wrote (None if none), err whether the except branch
\* printed to stderr
Reply(k, kind) == [out |-> [id |-> k, kind |-> kind], err |-> FALSE]
NoReply == [out |-> NoneVal, err |-> FALSE]
Raised == [out |-> NoneVal, err |-> TRUE]

HandleLine(line, k, table) ==
    IF line.json = "blank" THEN NoReply
    ELSE IF line.json \in {"invalid", "array"} THEN Raised
    ELSE IF line.method = "initialize"
    THEN IF line.has_id THEN Reply(k, "initialize") ELSE Raised
    ELSE IF line.method = "tools/list"
    THEN IF line.has_id THEN Reply(k, "tools") ELSE Raised
    ELSE IF line.method = "tools/call"
    THEN IF ~line.has_id THEN Raised
         ELSE IF line.tool = "search_technical_manual"
         THEN IF table # "missing" /\ line.search_raises THEN Raised
              ELSE IF FormatRaises(Search(table, line)) THEN Raised
              ELSE Reply(k, "content")
         ELSE Reply(k, "error -32601")
    ELSE IF line.method = "ping"
    THEN IF line.has_id THEN Reply(k, "pong") ELSE Raised
    ELSE NoReply

\* reading_thread: one readline() that returns a line, fed to the reader
McThreadRead ==
    /\ mcThread = "reading"
    /\ mcRead < Len(mcIn.lines)
    /\ mcIn.fail_at # mcRead + 1
    /\ mcRead' = mcRead + 1
    /\ mcBuf' = Append(mcBuf, mcRead + 1)
    /\ UNCHANGED <<mcIn, mcPc, mcThread, mcEof, mcOut, mcErr, mcHandled>>
    /\ UNCHANGED <<bsVars, hyVars, plVars, mmVars>>

\* reading_thread: readline() returns b"" at end of file, feed_eof
McThreadEof ==
    /\ mcThread = "reading"
    /\ mcRead = Len(mcIn.lines)
    /\ mcIn.fail_at # mcRead + 1
    /\ mcThread' = "done"
    /\ mcEof' = TRUE
    /\ UNCHANGED <<mcIn, mcPc, mcRead, mcBuf, mcOut, mcErr, mcHandled>>
    /\ UNCHANGED <<bsVars, hyVars, plVars, mmVars>>

\* reading_thread: readline() raises, the except branch feeds eof
McThreadFail ==
    /\ mcThread = "reading"
    /\ mcIn.fail_at = mcRead + 1
    /\ mcThread' = "failed"
    /\ mcEof' = TRUE
    /\ UNCHANGED <<mcIn, mcPc, mcRead, mcBuf, mcOut, mcErr, mcHandled>>
    /\ UNCHANGED <<bsVars, hyVars, plVars, mmVars>>

\* one turn of "async for line in reader" for a line within the limit
McHandleLine ==
    /\ mcPc = "running"
    /\ mcBuf # <<>>
    /\ mcIn.lines[Head(mcBuf)].size <= StreamLimit
    /\ LET k == Head(mcBuf)
           r == HandleLine(mcIn.lines[k], k, mcIn.table)
       IN  /\ mcOut' = IF r.out # NoneVal THEN Append(mcOut, r.out) ELSE mcOut
           /\ mcErr' = IF r.err THEN Append(mcErr, k) ELSE mcErr
           /\ mcHandled' = Append(mcHandled, k)
    /\ mcBuf' = Tail(mcBuf)
    /\ UNCHANGED <<mcIn, mcPc, mcThread, mcRead, mcEof>>
    /\ UNCHANGED <<bsVars, hyVars, plVars, mmVars>>

\* "async for line in reader" when the next line is over the limit:
\* readline raises ValueError outside the try, run() raises
McOverrun ==
    /\ mcPc = "running"
    /\ mcBuf # <<>>
    /\ mcIn.lines[Head(mcBuf)].size > StreamLimit
    /\ mcPc' = "raised"
    /\ mcBuf' = Tail(mcBuf)
    /\ UNCHANGED <<mcIn, mcThread, mcRead, mcEof, mcOut, mcErr, mcHandled>>
    /\ UNCHANGED <<bsVars, hyVars, plVars, mmVars>>

\* "async for line in reader" at end of the reader's data: run() returns
McEnd ==
    /\ mcPc = "running"
    /\ mcBuf = <<>>
    /\ mcEof
    /\ mcPc' = "ended"
    /\ UNCHANGED <<mcIn, mcThread, mcRead, mcBuf, mcEof, mcOut, mcErr, mcHandled>>
    /\ UNCHANGED <<bsVars, hyVars, plVars, mmVars>>

NextMcp ==
    \/ McThreadRead
    \/ McThreadEof
    \/ McThreadFail
    \/ McHandleLine
    \/ McOverrun
    \/ McEnd

\* run() with its reading thread started
McStart(in) ==
    /\ mcIn = in
    /\ mcPc = "running"
    /\ mcThread = "reading"
    /\ mcRead = 0
    /\ mcBuf = <<>>
    /\ mcEof = FALSE
    /\ mcOut = <<>>
    /\ mcErr = <<>>
    /\ mcHandled = <<>>

\* the server is not run
McIdle ==
    /\ mcIn = [table |-> "none"]
    /\ mcPc = "idle"
    /\ mcThread = "idle"
    /\ mcRead = 0
    /\ mcBuf = <<>>
    /\ mcEof = FALSE
    /\ mcOut = <<>>
    /\ mcErr = <<>>
    /\ mcHandled = <<>>

---------------------------------------------------------------------------
(* Inputs *)

NumPages == 2
MaxItems == 3

PageHeights == {842}
LoaderYs == {40, 110, 460, 520}
LoaderImageYs == {110, 460}

CaptionText == FigureWord \o <<" ", "1", ":", " ", "A">>
BodyText == <<"b", "o", "d", "y">>

TocNode(title, page, kids) ==
    [missing |-> "none", title |-> title, page |-> page, level |-> 1,
     children |-> kids]

TocOf(tree) == [parse |-> "ok", has_tree |-> TRUE, toc_tree |-> tree]

Title21 == <<"2", ".", "1", " ", "A">>
Title22 == <<"2", ".", "2", " ", "B">>

SimpleToc == TocOf(<<TocNode(Title21, 1, <<>>)>>)

\* A document is drawn as a sequence of items, page by page, a page's text
\* blocks before its images.
LoaderItems ==
    [page : 1..NumPages, kind : {"text"}, y : LoaderYs,
     text : {CaptionText, BodyText}]
    \cup [page : 1..NumPages, kind : {"image"}, y : LoaderImageYs, text : {<<>>}]

ItemRank(it) == 2 * it.page + (IF it.kind = "image" THEN 1 ELSE 0)

RECURSIVE ItemSeqs(_, _)
ItemSeqs(items, n) ==
    IF n = 0 THEN {<<>>}
    ELSE LET shorter == ItemSeqs(items, n - 1)
             longest == {s \in shorter : Len(s) = n - 1}
             fits(s, it) == s = <<>> \/ ItemRank(s[Len(s)]) <= ItemRank(it)
         IN  shorter \cup
             {Append(p[1], p[2]) :
                 p \in {q \in longest \X items : fits(q[1], q[2])}}

TextBlock(text, y) == [type |-> 0, lines |-> <<text>>, y0 |-> y]

ImageOf(xref, y) ==
    [xref |-> xref, fault |-> "none", has_rect |-> TRUE, clip_text |-> <<>>,
     y0 |-> y]

PageOf(s, p, h) ==
    LET ts == SelectSeq(s, LAMBDA it : it.page = p /\ it.kind = "text")
        is == SelectSeq(s, LAMBDA it : it.page = p /\ it.kind = "image")
    IN  [height |-> h, readable |-> TRUE, render_ok |-> TRUE,
         blocks |-> [k \in 1..Len(ts) |-> TextBlock(ts[k].text, ts[k].y)],
         images |-> [k \in 1..Len(is) |-> ImageOf(10 * p + k, is[k].y)]]

DocOf(s, h) ==
    [openable |-> TRUE, pages |-> [p \in 1..NumPages |-> PageOf(s, p, h)]]

LoaderDocs == {DocOf(s, h) : s \in ItemSeqs(LoaderItems, MaxItems), h \in PageHeights}

\* Documents for the segmenter: one page of text blocks and images, the
\* k-th item at y0 = 100 * k, so that load() returns them in item order.
Header21 == <<"2", ".", "1", " ", "I", "n", "t", "r", "o">>
Header22 == <<"2", ".", "2", " ", "S", "e", "t", "u", "p">>
Header23 == <<"2", ".", "3", " ", "M", "o", "r", "e">>
Header2 == <<"2", " ", "A", "l", "l">>
DotLeaderRow == Header21 \o <<" ", ".", ".", ".", ".", " ", "5">>
NoSpaceRow == <<"2", ".", "1", "I", "n", "t", "r", "o">>
TrailingDotRow == <<"2", ".", "1", ".", " ", "I", "n", "t", "r", "o">>
LongRow(n) == <<"2", ".", "1", " ">> \o Pad(n - 4)
ImageMark == <<"<", "i", "m", "a", "g", "e", ">">>

SegTexts ==
    {Header21, Header22, Header23, Header2, DotLeaderRow, NoSpaceRow,
     TrailingDotRow, LongRow(MaxHeaderLen), LongRow(MaxHeaderLen + 1), BodyText}

MaxStream == 3
SegStep == 100

SegItemSeqs == UNION {[1..k -> SegTexts \cup {ImageMark}] : k \in 0..MaxStream}

SegPage(s, h) ==
    LET idx == [k \in 1..Len(s) |-> k]
        ts == SelectSeq(idx, LAMBDA k : s[k] # ImageMark)
        is == SelectSeq(idx, LAMBDA k : s[k] = ImageMark)
    IN  [height |-> h, readable |-> TRUE, render_ok |-> TRUE,
         blocks |-> [k \in 1..Len(ts) |-> TextBlock(s[ts[k]], SegStep * ts[k])],
         images |-> [k \in 1..Len(is) |-> ImageOf(10 + k, SegStep * is[k])]]

SegDocOf(s, h) == [openable |-> TRUE, pages |-> <<SegPage(s, h)>>]

SegDocs == {SegDocOf(s, h) : s \in SegItemSeqs, h \in PageHeights}

Toc21 == SimpleToc
Toc21and22 == TocOf(<<TocNode(Title21, 1, <<TocNode(Title22, 2, <<>>)>>)>>)
SegTocs == {Toc21, Toc21and22}

\* Documents for the text noise filter: one page of blocks at the edges of
\* the header and footer bands.
MaxNoiseBlocks == 2
NoiseYs == {49, 50, 792, 793}

Padded(text, n) == text \o Pad(n - Len(text))

NoiseTexts ==
    {Padded(NOISE_PATTERNS[8], 40), Padded(NOISE_PATTERNS[5], 99),
     <<"p", "a", "g", "e", " ">> \o Padded(NOISE_PATTERNS[6], 95),
     Padded(NOISE_PATTERNS[7], 200), Pad(40), <<" ", "\n">>}

NoiseItems == [page : {1}, kind : {"text"}, y : NoiseYs, text : NoiseTexts]

NoiseDocs ==
    {[openable |-> TRUE, pages |-> <<PageOf(s, 1, h)>>] :
        s \in ItemSeqs(NoiseItems, MaxNoiseBlocks), h \in PageHeights}

\* TOC artifacts, well-formed and malformed
BadNode(miss) ==
    [missing |-> miss, title |-> Title22, page |-> 2, level |-> 1,
     children |-> <<>>]

TocArtifacts ==
    {[parse |-> "bad", has_tree |-> FALSE, toc_tree |-> <<>>],
     [parse |-> "ok", has_tree |-> FALSE, toc_tree |-> <<>>],
     TocOf(<<>>), Toc21, Toc21and22}
    \cup {TocOf(<<TocNode(Title21, 1, <<>>), BadNode(m)>>) : m \in {"title", "page", "level"}}
    \cup {TocOf(<<TocNode(Title21, 1, <<BadNode(m)>>)>>) : m \in {"title", "page", "level"}}

TocDocs == {SegDocOf(s, h) : s \in UNION {[1..k -> {Header21, BodyText}] : k \in 0..2},
                           h \in PageHeights}

\* Inputs of the ingestor runs
HyPage(text, pixmap_ok, vision_ok) ==
    [raw_text |-> text, pixmap_ok |-> pixmap_ok, vision_ok |-> vision_ok]

HyInput(caller, ctor, t, pages, target_page, target_section, write_ok) ==
    [caller |-> caller, ctor |-> ctor, toc |-> t, pages |-> pages,
     target_page |-> target_page, target_section |-> target_section,
     write_ok |-> write_ok]

MaxAnchors == 3
AnchorPages == {1, 5, 8}
TitleIntro == <<"I", "n", "t", "r", "o">>
AnchorTitles == {Title21, Title22, TitleIntro}

AnchorNodes == {TocNode(t, p, <<>>) : t \in AnchorTitles, p \in AnchorPages}

\* a flat tree, and the same nodes as the children of its first node
PageMapTrees ==
    LET flat == UNION {[1..n -> AnchorNodes] : n \in 1..MaxAnchors}
    IN  flat \cup {<<[f[1] EXCEPT !.children = Tail(f)]>> : f \in flat}

ExampleToc == TocOf(<<TocNode(Title21, 5, <<>>), TocNode(Title22, 8, <<>>)>>)

PageMapInputs ==
    {HyInput("master", "ok", TocOf(tree), <<HyPage(BodyText, TRUE, TRUE)>>,
             0, NoneVal, TRUE) : tree \in PageMapTrees}

MaxHyPages == 2

SeeFigure3 ==
    <<"S", "e", "e", " ">> \o FigureWord
    \o <<" ", "3", " ", "f", "o", "r", " ", "w", "i", "r", "i", "n", "g", ".">>
LowerFigure3 == <<"S", "e", "e", " ", "f", "i", "g", "u", "r", "e", " ", "3">>
FigDot2 == <<"F", "i", "g", ".", "\n", " ", "2">>
FigNoDot2 == <<"F", "i", "g", " ", "2">>
Table12 == <<"[", "T", "B", "D", "]", "T", "a", "b", "l", "e", "\t", "1", "2">>
TableA == <<"T", "a", "b", "l", "e", " ", "A", "1">>
FigureNoSpace == FigureWord \o <<"3">>
FigureAtEnd == <<"3", " ">> \o FigureWord \o <<" ">>
FooterAndBody ==
    CleanNoise[3] \o <<" ", "|", "\n">> \o BodyText \o <<"\n">>
    \o NOISE_PATTERNS[5] \o <<"2", ".", "6", "_", "x", "\n", "e", "n", "d">>

VisionTexts ==
    {SeeFigure3, LowerFigure3, FigDot2, FigNoDot2, Table12, TableA,
     FigureNoSpace, FigureAtEnd, FooterAndBody, <<>>}

VisionPages == {HyPage(t, TRUE, ok) : t \in VisionTexts, ok \in BOOLEAN}

VisionInputs ==
    {HyInput("master", "ok", SimpleToc, pages, tp, NoneVal, TRUE) :
        pages \in UNION {[1..n -> VisionPages] : n \in 1..MaxHyPages},
        tp \in {0, 1}}

\* Inputs of process_directory
MaxFiles == 3
PoolSizes == {1, 2}
FileKinds == {[atomized |-> FALSE, fails |-> FALSE],
              [atomized |-> FALSE, fails |-> TRUE],
              [atomized |-> TRUE, fails |-> TRUE]}

PoolInputs ==
    {[dir_ok |-> d, files |-> fs, force |-> force, max_workers |-> w] :
        d \in BOOLEAN, force \in BOOLEAN, w \in PoolSizes,
        fs \in UNION {[1..n -> FileKinds] : n \in 0..MaxFiles}}

\* Inputs of the runs in which something fails
MaxRunPages == 2

RunDocs ==
    {[openable |-> FALSE, pages |-> <<>>],
     [openable |-> TRUE, pages |-> <<[SegPage(<<Header21>>, 842) EXCEPT !.readable = FALSE]>>]}
    \cup {SegDocOf(s, 842) : s \in {<<>>, <<Header21, BodyText>>}}

RunTocs ==
    {SimpleToc, TocOf(<<>>), [parse |-> "bad", has_tree |-> FALSE, toc_tree |-> <<>>]}

RunHyPages ==
    {HyPage(SeeFigure3, ok, TRUE) : ok \in BOOLEAN} \cup {HyPage(BodyText, TRUE, TRUE)}

RunHyInputs ==
    {HyInput(caller, ctor, t, pages, 0, NoneVal, write_ok) :
        caller \in {"master", "main"},
        ctor \in {"ok", "open_fails", "fails_after_open"},
        t \in RunTocs,
        pages \in UNION {[1..n -> RunHyPages] : n \in 0..MaxRunPages},
        write_ok \in BOOLEAN}

RunMmPages ==
    {[raw_text |-> FooterAndBody, render_ok |-> r, write_ok |-> w] :
        r \in BOOLEAN, w \in BOOLEAN}

RunMmInputs ==
    {[openable |-> o, pages |-> pages, manifest_ok |-> m] :
        o \in BOOLEAN, m \in BOOLEAN,
        pages \in UNION {[1..n -> RunMmPages] : n \in 0..MaxRunPages}}

\* Documents for the image extraction: page 1 carries a text block and up
\* to MaxImages images, read or not, placed or not, with clipped text of 50
\* and 51 characters, at the edges of the header and footer regions; page 2
\* carries a text block and one image.
MaxImages == 2
ImageYs == {79, 80, 762, 763}
ClipTexts == {<<>>, <<" ">> \o Pad(50) \o <<"\n">>, Pad(51)}

ImageKinds ==
    {[fault |-> "none", has_rect |-> TRUE, clip_text |-> c, y0 |-> y] :
        c \in ClipTexts, y \in ImageYs}
    \cup {[fault |-> f, has_rect |-> TRUE, clip_text |-> <<>>, y0 |-> 80] :
             f \in {"extract_image", "get_image_rects"}}
    \cup {[fault |-> "none", has_rect |-> FALSE, clip_text |-> <<>>, y0 |-> 80]}

ImagePage(kinds, p) ==
    [height |-> 842, readable |-> TRUE, render_ok |-> TRUE,
     blocks |-> <<TextBlock(BodyText, 300)>>,
     images |-> [k \in 1..Len(kinds) |->
                    [xref |-> 10 * p + k, fault |-> kinds[k].fault,
                     has_rect |-> kinds[k].has_rect,
                     clip_text |-> kinds[k].clip_text, y0 |-> kinds[k].y0]]]

ImageDocs ==
    {[openable |-> TRUE,
      pages |-> <<ImagePage(kinds, 1), [ImagePage(<<>>, 2) EXCEPT !.images = <<ImageOf(21, 80)>>]>>] :
        kinds \in UNION {[1..n -> ImageKinds] : n \in 0..MaxImages}}

\* Documents for the recovery pass: on page 1 captions, look-alikes and body
\* text at the clamp of the clip top (y0 40, 50, 51) and at 400 and 401
\* under an image at y0 110; on page 2 a caption; page 1 renders or not.
MaxRecItems == 3
CaptionYs == {40, 50, 51, 510, 511}
NoColonText == FigureWord \o <<" ", "1", " ", "A">>

RecItems ==
    [page : {1}, kind : {"text"}, y : CaptionYs,
     text : {CaptionText, BodyText, NoColonText}]
    \cup [page : {1}, kind : {"image"}, y : {110}, text : {<<>>}]
    \cup [page : {2}, kind : {"text"}, y : {520}, text : {CaptionText}]

RecDocs ==
    {[DocOf(s, 842) EXCEPT !.pages[1].render_ok = r] :
        s \in ItemSeqs(RecItems, MaxRecItems), r \in BOOLEAN}

\* TOC trees of up to MaxTocNodes nodes, of every shape, over two titles and
\* two pages; and one-node TOCs over titles with and without a numeral.
MaxTocNodes == 3
TreeTitles == {Title21, Title22}
TreePages == {1, 2}

RECURSIVE Forests(_)
Forests(n) ==
    IF n = 0 THEN {<<>>}
    ELSE UNION {
             {<<TocNode(t, p, kids)>> \o rest :
                 t \in TreeTitles, p \in TreePages,
                 kids \in Forests(k), rest \in Forests(n - 1 - k)} :
             k \in 0..(n - 1)}

Title1Dot == <<"1", ".", " ", "I", "n", "t", "r", "o">>
TitleDots5 == <<".", ".", "5", " ", "N", "o", "t", "e", "s">>
TitleBare == <<"2", ".", "1">>
Title2Dots == <<"2", ".", ".", "1", " ", "B">>
Title222 == <<"2", ".", "2", ".", "2", "\t", " ", "C">>
IdTitles ==
    {Title21, Title1Dot, TitleDots5, TitleBare, Title2Dots, Title222,
     TitleIntro, NoSpaceRow}

TocTrees ==
    {TocOf(f) : f \in UNION {Forests(n) : n \in 0..MaxTocNodes}}
    \cup {TocOf(<<TocNode(t, 1, <<>>)>>) : t \in IdTitles}

\* Documents for whole runs of the ingestor: page p carries the text "p<p>;",
\* followed by a figure reference on the pages that go to vision.  Short
\* documents take every mix of page kinds; long documents reach past the
\* range of the page map.
IngestPages == 3
LongPages == 54

PageMark(p) == <<"p">> \o IntChars(p) \o <<";">>

IngestPage(p, kind) ==
    IF kind = "text" THEN HyPage(PageMark(p), TRUE, TRUE)
    ELSE HyPage(PageMark(p) \o <<" ">> \o FigureWord \o <<" ", "3">>,
                kind # "nopixmap", kind = "vision")

IngestKinds == {"text", "vision", "visionfails", "nopixmap"}

IngestDocs ==
    {[p \in DOMAIN kinds |-> IngestPage(p, kinds[p])] :
        kinds \in UNION {[1..n -> IngestKinds \ {"nopixmap"}] : n \in 1..IngestPages}}
    \cup {[p \in 1..IngestPages |->
              IngestPage(p, IF p = q THEN "nopixmap" ELSE "visionfails")] :
            q \in 1..IngestPages}
    \cup {[p \in 1..n |-> IngestPage(p, IF p = n THEN k ELSE "text")] :
            n \in {LongPages - 1, LongPages}, k \in {"text", "visionfails"}}

IngestTocs ==
    {TocOf(<<TocNode(Title21, 1, <<TocNode(Title22, 2, <<>>)>>)>>),
     TocOf(<<TocNode(Title22, 2, <<>>), TocNode(Title21, 3, <<>>),
             TocNode(Title22, 3, <<>>)>>),
     TocOf(<<TocNode(TitleIntro, 1, <<>>), TocNode(Title21, 3, <<>>)>>)}

IngestInputs ==
    {HyInput("master", "ok", t, pages, tp, ts, TRUE) :
        t \in IngestTocs, pages \in IngestDocs, tp \in {0, 2},
        ts \in {NoneVal, <<"2", ".", "1">>, <<"2", ".", "2">>}}

\* Inputs of the MCP server: up to MaxLines lines of stdin, a table that is
\* there or not, and a stdin that fails at its second read or never.
MaxLines == 2
SmallLine == 120

McLine(json, size, method, has_id, tool, search_raises) ==
    [json |-> json, size |-> size, method |-> method, has_id |-> has_id,
     tool |-> tool, search_raises |-> search_raises]

SearchTool == "search_technical_manual"

McLines ==
    {McLine("blank", 0, "", FALSE, "", FALSE),
     McLine("invalid", SmallLine, "", FALSE, "", FALSE),
     McLine("array", SmallLine, "", FALSE, "", FALSE),
     McLine("object", SmallLine, "initialize", TRUE, "", FALSE),
     McLine("object", SmallLine, "initialize", FALSE, "", FALSE),
     McLine("object", SmallLine, "tools/list", TRUE, "", FALSE),
     McLine("object", SmallLine, "ping", TRUE, "", FALSE),
     McLine("object", SmallLine, "resources/list", TRUE, "", FALSE),
     McLine("object", SmallLine, "tools/call", TRUE, SearchTool, FALSE),
     McLine("object", SmallLine, "tools/call", TRUE, SearchTool, TRUE),
     McLine("object", SmallLine, "tools/call", TRUE, "other_tool", FALSE),
     McLine("object", SmallLine, "tools/call", FALSE, SearchTool, FALSE),
     McLine("object", StreamLimit, "tools/call", TRUE, SearchTool, FALSE),
     McLine("object", StreamLimit + 1, "tools/call", TRUE, SearchTool, FALSE)}

McInputs ==
    {[lines |-> ls, table |-> t, fail_at |-> f] :
        ls \in UNION {[1..n -> McLines] : n \in 0..MaxLines},
        t \in {"missing", "open"},
        f \in {0, 2}}

---------------------------------------------------------------------------
(* Specifications *)

\* build_stream on documents that exercise ordering and recovery
Init ==
    /\ \E doc \in LoaderDocs : BsStart(doc, SimpleToc)
    /\ HyIdle
    /\ PlIdle
    /\ MmIdle
    /\ McIdle

Next == NextBuildStream

Spec == Init /\ [][Next]_vars

\* build_stream on documents and TOCs that exercise segmentation
InitSegment ==
    /\ \E doc \in SegDocs, t \in SegTocs : BsStart(doc, t)
    /\ HyIdle
    /\ PlIdle
    /\ MmIdle
    /\ McIdle

SpecSegment == InitSegment /\ [][Next]_vars

\* build_stream on documents that exercise the text noise filter
InitNoise ==
    /\ \E doc \in NoiseDocs : BsStart(doc, SimpleToc)
    /\ HyIdle
    /\ PlIdle
    /\ MmIdle
    /\ McIdle

SpecNoise == InitNoise /\ [][Next]_vars

\* build_stream on well-formed and malformed TOC artifacts
InitToc ==
    /\ \E doc \in TocDocs, t \in TocArtifacts : BsStart(doc, t)
    /\ HyIdle
    /\ PlIdle
    /\ MmIdle
    /\ McIdle

SpecToc == InitToc /\ [][Next]_vars

\* The recovery pass run once more on the stream load() returned: scan,
\* append, sort (what lines 103-106 do).
RerunRecovery ==
    /\ bsPc = "loaded"
    /\ bsPc' = "rerun"
    /\ globalStream' = SortStream(RecoverVectorFigures(globalStream, pdf))
    /\ recoveryLog' = recoveryLog \o RecoveryAttempts(globalStream, pdf)
    /\ UNCHANGED <<pdf, toc, docOpen, firstResult, flatToc, sections, bsResult>>
    /\ UNCHANGED <<hyVars, plVars, mmVars, mcVars>>

NextRerun ==
    \/ NextBuildStream
    \/ RerunRecovery

SpecRerun == Init /\ [][NextRerun]_vars

\* The ingestor on TOCs that exercise the page map
InitPageMap ==
    /\ BsIdle
    /\ \E in \in PageMapInputs : HyStart(in)
    /\ PlIdle
    /\ MmIdle
    /\ McIdle

SpecPageMap == InitPageMap /\ [][NextHybrid]_vars

\* The ingestor on pages that exercise the classifier
InitVision ==
    /\ BsIdle
    /\ \E in \in VisionInputs : HyStart(in)
    /\ PlIdle
    /\ MmIdle
    /\ McIdle

SpecVision == InitVision /\ [][NextHybrid]_vars

\* process_directory on directories whose files succeed, are skipped or fail
InitPool ==
    /\ BsIdle
    /\ HyIdle
    /\ \E in \in PoolInputs : PlStart(in)
    /\ MmIdle
    /\ McIdle

SpecPool == InitPool /\ [][NextPool]_vars

\* One ingestion run, of any of the programs that open a document, with
\* the failures its code can meet
InitRuns ==
    \/ /\ \E doc \in RunDocs, t \in RunTocs : BsStart(doc, t)
       /\ HyIdle
       /\ PlIdle
       /\ MmIdle
       /\ McIdle
    \/ /\ BsIdle
       /\ \E in \in RunHyInputs : HyStart(in)
       /\ PlIdle
       /\ MmIdle
       /\ McIdle
    \/ /\ BsIdle
       /\ HyIdle
       /\ PlIdle
       /\ \E in \in RunMmInputs : MmStart(in)
       /\ McIdle

NextRuns ==
    \/ NextBuildStream
    \/ NextHybrid
    \/ NextMultimodal

SpecRuns == InitRuns /\ [][NextRuns]_vars

\* build_stream on documents that exercise the image extraction
InitImages ==
    /\ \E doc \in ImageDocs : BsStart(doc, SimpleToc)
    /\ HyIdle
    /\ PlIdle
    /\ MmIdle
    /\ McIdle

SpecImages == InitImages /\ [][Next]_vars

\* build_stream on documents that exercise the recovery pass
InitRecovery ==
    /\ \E doc \in RecDocs : BsStart(doc, SimpleToc)
    /\ HyIdle
    /\ PlIdle
    /\ MmIdle
    /\ McIdle

SpecRecovery == InitRecovery /\ [][Next]_vars

\* build_stream on TOC trees of every shape and on titles of every form
InitTocTree ==
    /\ \E t \in TocTrees : BsStart(SegDocOf(<<Header21, BodyText>>, 842), t)
    /\ HyIdle
    /\ PlIdle
    /\ MmIdle
    /\ McIdle

SpecTocTree == InitTocTree /\ [][Next]_vars

\* Whole runs of the ingestor, with and without filters
InitIngest ==
    /\ BsIdle
    /\ \E in \in IngestInputs : HyStart(in)
    /\ PlIdle
    /\ MmIdle
    /\ McIdle

SpecIngest == InitIngest /\ [][NextHybrid]_vars

\* The MCP server on a stdin of requests, notifications and broken lines
InitMcp ==
    /\ BsIdle
    /\ HyIdle
    /\ PlIdle
    /\ MmIdle
    /\ \E in \in McInputs : McStart(in)

SpecMcp == InitMcp /\ [][NextMcp]_vars

---------------------------------------------------------------------------
(* Claims *)

\* The order in which two elements with the same key came into the list
\* that was sorted: a page's text blocks, then its images, then the
\* snapshots appended by the recovery pass, each in list order.
ListRank(src) == CASE src[2] = "text" -> 0 [] src[2] = "image" -> 1 [] OTHER -> 2

CameBefore(a, b) ==
    \/ ListRank(a) < ListRank(b)
    \/ (ListRank(a) = ListRank(b) /\ a[3] < b[3])

SameKey(a, b) == a.page_num = b.page_num /\ a.y_position = b.y_position

StreamOrdered(s) ==
    \A i, j \in 1..Len(s) :
        i < j =>
            /\ s[i].page_num <= s[j].page_num
            /\ s[i].page_num = s[j].page_num => s[i].y_position <= s[j].y_position
            /\ SameKey(s[i], s[j]) => CameBefore(s[i].src, s[j].src)

\* C1: the stream load() builds is in (page_num, y_position) order, elements
\* of equal key in the order they came in (text blocks, images, snapshots);
\* this holds after the first sort and after the recovery pass and re-sort.
C1_StreamOrdered ==
    bsPc \in {"sorted", "loaded", "segmenter", "returned"} => StreamOrdered(globalStream)

\* C1 witness: a returned stream over two pages, with a snapshot and with
\* two elements of equal key.
C1_Witness ==
    /\ bsPc = "loaded"
    /\ \E i, j \in 1..Len(globalStream) :
          /\ i < j
          /\ SameKey(globalStream[i], globalStream[j])
          /\ globalStream[j].src[2] = "snap"
    /\ \E i, j \in 1..Len(globalStream) :
          globalStream[i].page_num < globalStream[j].page_num

\* C4 (as claimed): a second run of the recovery pass on the returned
\* stream adds no snapshot.
C4_RecoveryIdempotent ==
    bsPc = "rerun" => globalStream = firstResult

\* The places (section, index) where the dict holds the element src
PlacesOf(secs, src) ==
    UNION {{<<k, m>> : m \in {n \in 1..Len(secs[k].elems) : secs[k].elems[n].src = src}} :
              k \in 1..Len(secs)}

\* the index in the stream of the m-th element of section k
StreamIndexOf(stream, e) == CHOOSE i \in 1..Len(stream) : stream[i].src = e.src

EveryUnitOnce(stream, secs) ==
    /\ \A i \in 1..Len(stream) : Cardinality(PlacesOf(secs, stream[i].src)) = 1
    /\ \A k \in 1..Len(secs) : \A m \in 1..Len(secs[k].elems) :
          \E i \in 1..Len(stream) : stream[i] = secs[k].elems[m]

InStreamOrder(stream, secs) ==
    \A k \in 1..Len(secs) : \A m, n \in 1..Len(secs[k].elems) :
        m < n => StreamIndexOf(stream, secs[k].elems[m])
                   < StreamIndexOf(stream, secs[k].elems[n])

ContiguousSlices(stream, secs) ==
    \A k \in 1..Len(secs) :
        \E a \in 1..Len(stream) :
            /\ a + Len(secs[k].elems) - 1 <= Len(stream)
            /\ secs[k].elems = SubSeq(stream, a, a + Len(secs[k].elems) - 1)

\* C2 (as claimed): segment() puts every unit of the stream into exactly one
\* section's list, in stream order, and every list is one contiguous slice
\* of the stream.
C2_ContiguousPartition ==
    bsPc = "returned" =>
        /\ EveryUnitOnce(globalStream, sections)
        /\ InStreamOrder(globalStream, sections)
        /\ ContiguousSlices(globalStream, sections)

\* The part of C2 the code keeps: no unit dropped, none duplicated, every
\* list in stream order.
C2_Partition ==
    bsPc = "returned" =>
        /\ EveryUnitOnce(globalStream, sections)
        /\ InStreamOrder(globalStream, sections)

\* The four conditions of header detection, on the trimmed content
FourConditions(content, flat_toc) ==
    LET text == Strip(content)
    IN  /\ Len(text) <= 150
        /\ ~DotLeaderEnd(text)
        /\ HeaderNumeral(text) # NoneVal
        /\ \E k \in 1..Len(flat_toc) : flat_toc[k].section_id = HeaderNumeral(text)

HasAnchor(flat_toc, id) == \E k \in 1..Len(flat_toc) : flat_toc[k].section_id = id

\* C3: segment() relabels a Text unit to Header exactly when the four
\* conditions hold for it; a dot-leader row is never promoted, and
\* "2.1 Intro" is promoted whenever "2.1" is an anchor's section id.
C3_HeaderIffFourConditions ==
    bsPc = "returned" =>
        \A i \in 1..Len(firstResult) :
            LET before == firstResult[i]
                after == globalStream[i]
            IN  /\ before.element_type = "text" =>
                      (after.element_type = "header"
                          <=> FourConditions(before.content, flatToc))
                /\ before.element_type # "text" =>
                      after.element_type = before.element_type
                /\ before.content = DotLeaderRow => after.element_type = "text"
                /\ (before.content = Header21 /\ HasAnchor(flatToc, <<"2", ".", "1">>))
                      => after.element_type = "header"

\* C3 witness: segment() has promoted a unit and has left a dot-leader row
\* whose numeral is an anchor's id as Text.
C3_Witness ==
    /\ bsPc = "returned"
    /\ \E i, j \in 1..Len(globalStream) :
          /\ globalStream[i].element_type = "header"
          /\ globalStream[j].element_type = "text"
          /\ globalStream[j].content = DotLeaderRow
          /\ HasAnchor(flatToc, <<"2", ".", "1">>)

\* the element load() made of block k of page 1, if it made one
KeptBlock(stream, k) == \E i \in 1..Len(stream) : stream[i].src = <<1, "text", k>>

\* C6: a non-empty text block is dropped exactly when it contains a noise
\* substring and lies in the header band (y0 < 50), in the footer band
\* (y0 > page_height - 50) or is shorter than 100 characters.
C6_NoiseFilter ==
    bsPc \in {"sorted", "recovered", "loaded"} =>
        \A k \in 1..Len(pdf.pages[1].blocks) :
            LET block == pdf.pages[1].blocks[k]
                text == Strip(JoinLines(block.lines))
                h == pdf.pages[1].height
                tbd == <<"[", "T", "B", "D", "]">>
            IN  text # <<>> =>
                  /\ ~KeptBlock(globalStream, k) <=>
                        /\ HasNoise(text)
                        /\ (block.y0 < 50 \/ block.y0 > h - 50 \/ Len(text) < 100)
                  /\ (Len(text) = 40 /\ Contains(text, tbd) /\ block.y0 > h - 50)
                        => ~KeptBlock(globalStream, k)
                  /\ (Len(text) = 200 /\ HasNoise(text) /\ block.y0 < 50)
                        => ~KeptBlock(globalStream, k)
                  /\ (Len(text) = 200 /\ block.y0 >= 50 /\ block.y0 <= h - 50)
                        => KeptBlock(globalStream, k)
                  /\ text = Pad(40) => KeptBlock(globalStream, k)

\* C6 witness: one page with a 200-character noise block kept in the body
\* band and a noise block dropped in the footer band.
C6_Witness ==
    /\ bsPc = "loaded"
    /\ \E k, m \in 1..Len(pdf.pages[1].blocks) :
          LET a == pdf.pages[1].blocks[k]
              b == pdf.pages[1].blocks[m]
          IN  /\ Len(BlockText(a)) = 200 /\ HasNoise(BlockText(a))
              /\ KeptBlock(globalStream, k)
              /\ b.y0 > pdf.pages[1].height - 50 /\ HasNoise(BlockText(b))
              /\ ~KeptBlock(globalStream, m)

\* a TOC artifact that is not a well-formed TOC
MalformedToc(t) ==
    \/ t.parse = "bad"
    \/ ~t.has_tree
    \/ HasMalformedEntry(t.toc_tree)

\* C10 (as claimed): on a malformed TOC artifact build_stream raises and
\* returns no SectionMap.
C10_MalformedTocFatal ==
    (bsPc \in {"returned", "raised"} /\ MalformedToc(toc)) => bsResult.kind = "raised"

\* The anchors in the order flatten() met them
MetAnchors == HyFlatten(HyTree(hyIn.toc))

\* The anchor that decides page p: among those with page <= p, the one of
\* the greatest page, and of these the one met last (0: none)
DecidingAnchor(p) ==
    LET es == MetAnchors
        upto == {k \in 1..Len(es) : es[k].page <= p}
    IN  IF upto = {} THEN 0
        ELSE CHOOSE k \in upto :
                 \A j \in upto : \/ es[j].page < es[k].page
                                 \/ (es[j].page = es[k].page /\ j <= k)

\* C5: for a non-empty TOC the page map gives each page p of its range the
\* id of the last anchor, in stable page-ascending order, whose page is
\* <= p, and "_preamble" when there is none; with anchors at page 5 ("2.1")
\* and page 8 ("2.2"), pages 1-4 are "_preamble", 5-7 "2.1", 8 on "2.2".
C5_PageForwardFill ==
    hyPc \in {"pages", "returned", "raised"} /\ MetAnchors # <<>> =>
        /\ \A p \in 1..Len(pageMap) :
               pageMap[p] = IF DecidingAnchor(p) = 0 THEN Preamble
                            ELSE MetAnchors[DecidingAnchor(p)].id
        /\ hyIn.toc = ExampleToc =>
               \A p \in 1..Len(pageMap) :
                   pageMap[p] = IF p <= 4 THEN Preamble
                                ELSE IF p <= 7 THEN <<"2", ".", "1">>
                                ELSE <<"2", ".", "2">>

\* C5 witness: the map of the example TOC has been built and used
C5_Witness ==
    /\ hyPc = "returned"
    /\ hyIn.toc = ExampleToc
    /\ Len(pageMap) = 58
    /\ pageMap[4] = Preamble
    /\ pageMap[5] = <<"2", ".", "1">>
    /\ pageMap[58] = <<"2", ".", "2">>

\* The pattern, spelled out: a token, then one or more whitespace
\* characters, then a digit
PatternFound(text) ==
    \E i \in 1..Len(text), j \in 1..Len(text) :
        \E tok \in {<<"F", "i", "g", "u", "r", "e">>, <<"F", "i", "g", ".">>,
                    <<"T", "a", "b", "l", "e">>} :
            /\ i + Len(tok) - 1 <= Len(text)
            /\ \A k \in 1..Len(tok) : text[i + k - 1] = tok[k]
            /\ j > i + Len(tok)
            /\ \A k \in (i + Len(tok))..(j - 1) : text[k] \in {" ", "\n", "\t"}
            /\ text[j] \in Digits

\* C7: a page goes to vision exactly when its raw text holds 'Figure',
\* 'Fig.' or 'Table' (case-sensitive), then at least one whitespace
\* character, then a digit; every processed page takes exactly one of the
\* two paths.
C7_VisionTrigger ==
    \A k \in 1..Len(pathLog) :
        LET text == hyIn.pages[pathLog[k].page].raw_text
        IN  /\ Cardinality(pathLog[k].paths) = 1
            /\ pathLog[k].paths = {"vision"} <=> PatternFound(text)
            /\ pathLog[k].paths = {"text"} <=> ~PatternFound(text)

\* C7 witness: the spec's example page went to vision and a page with the
\* lower-case word went to text cleanup
C7_Witness ==
    /\ hyPc = "returned"
    /\ Len(pathLog) = 2
    /\ hyIn.pages[1].raw_text = SeeFigure3
    /\ pathLog[1].paths = {"vision"}
    /\ hyIn.pages[2].raw_text = LowerFigure3
    /\ pathLog[2].paths = {"text"}

\* A submitted task whose process_file raises
TaskRaises(t) ==
    /\ plIn.files[t].fails
    /\ plIn.force \/ ~plIn.files[t].atomized

\* The tasks that did not raise, in the order they finished
FinishedWithoutRaising == SelectSeq(plDone, LAMBDA t : ~TaskRaises(t))

\* C8: at most max_workers tasks run at a time; when process_file raises
\* for some files every other submitted task still runs to completion,
\* process_directory does not raise, and the returned list holds exactly
\* the output paths of the tasks that did not raise, one per task, in the
\* order as_completed yielded them: the tasks that finished after the
\* collection started are in completion order.
C8_FailureIsolation ==
    /\ Cardinality(plRunning) <= plIn.max_workers
    /\ plIn.dir_ok => plPc # "raised"
    /\ plPc = "returned" =>
           /\ \A t \in 1..Len(plIn.files) : \E k \in 1..Len(plDone) : plDone[k] = t
           /\ \A t \in 1..Len(plIn.files) :
                  Cardinality({k \in 1..Len(outputPaths) : outputPaths[k] = t})
                      = IF TaskRaises(t) THEN 0 ELSE 1
           /\ \A k \in 1..Len(outputPaths) : outputPaths[k] \in 1..Len(plIn.files)
           /\ SelectSeq(outputPaths, LAMBDA t : t \notin plFinishedFirst)
                  = SelectSeq(FinishedWithoutRaising, LAMBDA t : t \notin plFinishedFirst)
           /\ plErrors = {t \in 1..Len(plIn.files) : TaskRaises(t)}

\* C8 as stated: the returned list is in completion order
C8_CompletionOrder ==
    plPc = "returned" => outputPaths = FinishedWithoutRaising

\* C8 witness: a task raised, two others returned, the run is over
C8_Witness ==
    /\ plPc = "returned"
    /\ \E t \in 1..Len(plIn.files) : TaskRaises(t)
    /\ Len(outputPaths) = 2
    /\ Len(plDone) = 3

\* C9: every run that opens a document handle has closed it when it is
\* over, whether it returned or raised: build_stream, the ingestor under
\* run_master_pipeline and under its own command line, and ingest_document.
C9_HandleReleased ==
    /\ bsPc \in {"returned", "raised"} => docOpen # "open"
    /\ hyPc \in {"returned", "raised"} => hyDocOpen # "open"
    /\ mmPc \in {"returned", "raised"} => mmDocOpen # "open"

\* the element load() made of image k of page p, if it made one
KeptImage(stream, p, k) == \E i \in 1..Len(stream) : stream[i].src = <<p, "image", k>>

\* the element load() made of text block k of page p, if it made one
KeptText(stream, p, k) == \E i \in 1..Len(stream) : stream[i].src = <<p, "text", k>>

\* an image that was read and placed and that neither overlaps more than
\* 50 characters of text nor lies in the header or footer region
GoodImage(img, h) ==
    /\ img.fault = "none"
    /\ img.has_rect
    /\ Len(Strip(img.clip_text)) <= 50
    /\ img.y0 >= 80
    /\ img.y0 <= h - 80

\* C11: when extracting or locating one image raises, only that image is
\* skipped: the other images of the page, the page's text units and the
\* later pages are extracted, and load() returns a stream.
C11_ImageErrorLocal ==
    /\ bsPc # "raised"
    /\ bsPc \in {"sorted", "recovered", "loaded"} =>
           \A p \in 1..Len(pdf.pages) :
               /\ \A k \in 1..Len(pdf.pages[p].blocks) : KeptText(globalStream, p, k)
               /\ \A k \in 1..Len(pdf.pages[p].images) :
                      LET img == pdf.pages[p].images[k]
                      IN  /\ GoodImage(img, pdf.pages[p].height)
                                => KeptImage(globalStream, p, k)
                          /\ img.fault # "none" => ~KeptImage(globalStream, p, k)
    /\ bsPc = "loaded" => firstResult = globalStream

\* C11 witness: the first image of page 1 raised; the second image, the
\* text of page 1 and the image of page 2 are in the stream load() returned
C11_Witness ==
    /\ bsPc = "loaded"
    /\ Len(pdf.pages[1].images) = 2
    /\ pdf.pages[1].images[1].fault = "extract_image"
    /\ ~KeptImage(firstResult, 1, 1)
    /\ KeptImage(firstResult, 1, 2)
    /\ KeptText(firstResult, 1, 1)
    /\ KeptImage(firstResult, 2, 1)

Unrecovered(stream) == SelectSeq(stream, LAMBDA e : e.src[2] # "snap")

\* the snapshot made for the caption at index i of the sorted stream
SnapshotOf(stream, i) ==
    {j \in 1..Len(stream) : stream[j].src[2] = "snap" /\ stream[j].src[3] = i}

\* C12: when rendering the clip for an orphan caption fails, no snapshot is
\* added for it, the caption stays a Text unit at its position, the stream
\* is otherwise unchanged and the pass goes on to the remaining captions.
C12_SnapshotFailureSkipped ==
    bsPc \in {"recovered", "loaded"} =>
        /\ Unrecovered(globalStream) = SortStream(AllElements(pdf))
        /\ \A k \in 1..Len(recoveryLog) :
               LET e == recoveryLog[k]
                   cap == Unrecovered(globalStream)[e.index]
               IN  /\ cap.element_type = "text"
                   /\ cap.page_num = e.page_num
                   /\ cap.y_position = e.y_position
                   /\ Cardinality(SnapshotOf(globalStream, e.index))
                          = IF pdf.pages[e.page_num].render_ok THEN 1 ELSE 0
        /\ Len(globalStream) = Len(Unrecovered(globalStream))
               + Cardinality({k \in 1..Len(recoveryLog) :
                                 pdf.pages[recoveryLog[k].page_num].render_ok})
        /\ \A i \in 1..Len(Unrecovered(globalStream)) :
               LET sorted == Unrecovered(globalStream)
               IN  /\ sorted[i].element_type = "text"
                   /\ sorted[i].content = CaptionText
                   /\ (i = 1 \/ sorted[i - 1].page_num # sorted[i].page_num)
                   /\ pdf.pages[sorted[i].page_num].render_ok
                   => SnapshotOf(globalStream, i) # {}

\* C12 witness: the render failed for a caption of page 1, which has no
\* snapshot, and the caption of page 2 after it has its snapshot
C12_Witness ==
    /\ bsPc = "loaded"
    /\ ~pdf.pages[1].render_ok
    /\ Len(recoveryLog) = 2
    /\ recoveryLog[1].page_num = 1
    /\ SnapshotOf(globalStream, recoveryLog[1].index) = {}
    /\ recoveryLog[2].page_num = 2
    /\ SnapshotOf(globalStream, recoveryLog[2].index) # {}

\* ^Figure\s+\d+: spelled out
CaptionPattern(text) ==
    \E a, b \in 1..Len(text) :
        /\ Len(text) >= 6
        /\ SubSeq(text, 1, 6) = <<"F", "i", "g", "u", "r", "e">>
        /\ 7 <= a /\ a < b
        /\ \A k \in 7..a : text[k] \in {" ", "\n", "\t"}
        /\ \A k \in (a + 1)..(b - 1) : text[k] \in Digits
        /\ a + 1 <= b - 1
        /\ text[b] = ":"

\* C17: a snapshot is attempted for a Text unit matching ^Figure\s+\d+:
\* exactly when the unit just before it in the sorted stream is missing, is
\* on another page, is not an Image, or lies more than 400 above it.
C17_RecoveryTrigger ==
    bsPc \in {"recovered", "loaded"} =>
        LET s == Unrecovered(globalStream)
        IN  /\ \A i \in 1..Len(s) :
                   (\E k \in 1..Len(recoveryLog) : recoveryLog[k].index = i) <=>
                       /\ s[i].element_type = "text"
                       /\ CaptionPattern(s[i].content)
                       /\ \/ i = 1
                          \/ s[i - 1].page_num # s[i].page_num
                          \/ s[i - 1].element_type # "image"
                          \/ s[i].y_position - s[i - 1].y_position > 400
            /\ \A k, m \in 1..Len(recoveryLog) :
                   /\ recoveryLog[k].index \in 1..Len(s)
                   /\ k # m => recoveryLog[k].index # recoveryLog[m].index

\* C17 witness: a caption 400 under an image of its page triggered nothing,
\* the caption of page 2 triggered a snapshot
C17_Witness ==
    /\ bsPc = "loaded"
    /\ Len(recoveryLog) = 1
    /\ recoveryLog[1].page_num = 2
    /\ \E i \in 2..Len(firstResult) :
           /\ firstResult[i].element_type = "text"
           /\ firstResult[i].content = CaptionText
           /\ firstResult[i].page_num = 1
           /\ firstResult[i].y_position = 510
           /\ firstResult[i - 1].element_type = "image"
           /\ firstResult[i - 1].y_position = 110

\* C18 (as claimed): in the stream load() returns every snapshot is on the
\* page of the caption that triggered it and comes before that caption.
C18_SnapshotBeforeCaption ==
    bsPc = "loaded" =>
        \A j \in 1..Len(globalStream) :
            globalStream[j].src[2] = "snap" =>
                LET cap == Unrecovered(globalStream)[globalStream[j].src[3]]
                IN  /\ globalStream[j].page_num = cap.page_num
                    /\ \E k \in (j + 1)..Len(globalStream) :
                           globalStream[k].src = cap.src

\* C13 (as claimed): an anchor's section_id is the leading dotted numeral
\* \d+(\.\d+)* of its title when whitespace follows the numeral, and the
\* full title otherwise ("1. Introduction", "..5 Notes").
C13_SectionIdDottedNumeral ==
    bsPc \in {"segmenter", "returned"} =>
        \A k \in 1..Len(flatToc) :
            LET title == flatToc[k].title
                e == DottedNumeralEnd(title, 1)
            IN  flatToc[k].section_id =
                    IF e >= 1 /\ e + 1 <= Len(title) /\ title[e + 1] \in {" ", "\n", "\t"}
                    THEN SubSeq(title, 1, e)
                    ELSE title

\* the nodes of a TOC tree, parent before children, siblings in input order
RECURSIVE TreeNodes(_)
TreeNodes(tree) ==
    IF tree = <<>> THEN <<>>
    ELSE <<[title |-> tree[1].title, page |-> tree[1].page]>>
         \o TreeNodes(tree[1].children) \o TreeNodes(Tail(tree))

AnchorNode(a) == [title |-> a.title, page |-> a.page]

\* C14: flat_toc holds one anchor for every node of the TOC tree at every
\* depth, sorted by page ascending, anchors of one page in the tree's
\* pre-order; anchors with the same section_id are all kept.
C14_FlatTocOrder ==
    bsPc \in {"segmenter", "returned"} =>
        LET nodes == TreeNodes(toc.toc_tree)
        IN  /\ Len(flatToc) = Len(nodes)
            /\ \A i, j \in 1..Len(flatToc) : i < j => flatToc[i].page <= flatToc[j].page
            /\ \A p \in {nodes[k].page : k \in 1..Len(nodes)} :
                   [k \in 1..Len(SelectSeq(flatToc, LAMBDA a : a.page = p)) |->
                        AnchorNode(SelectSeq(flatToc, LAMBDA a : a.page = p)[k])]
                     = SelectSeq(nodes, LAMBDA n : n.page = p)

\* C14 witness: a tree three deep whose pages are out of order, with two
\* anchors of one section_id on one page
C14_Witness ==
    /\ bsPc = "segmenter"
    /\ Len(toc.toc_tree) = 1
    /\ Len(toc.toc_tree[1].children) = 1
    /\ Len(toc.toc_tree[1].children[1].children) = 1
    /\ toc.toc_tree[1].page = 2
    /\ toc.toc_tree[1].children[1].page = 1
    /\ toc.toc_tree[1].children[1].children[1].page = 2
    /\ toc.toc_tree[1].title = Title21
    /\ toc.toc_tree[1].children[1].children[1].title = Title21
    /\ Len(flatToc) = 3
    /\ flatToc[2].section_id = flatToc[3].section_id

\* the units stored under a key of the result (none when the key is absent)
SectionUnits(secs, key) ==
    IF \E k \in 1..Len(secs) : secs[k].id = key
    THEN (CHOOSE s \in {secs[k] : k \in 1..Len(secs)} : s.id = key).elems
    ELSE <<>>

\* the position of the first unit of the stream that segment() promoted
FirstHeader(stream) ==
    IF \E i \in 1..Len(stream) : stream[i].element_type = "header"
    THEN CHOOSE i \in 1..Len(stream) :
             /\ stream[i].element_type = "header"
             /\ \A j \in 1..(i - 1) : stream[j].element_type # "header"
    ELSE Len(stream) + 1

\* C16: the units before the first detected header are the units under the
\* key "_preamble", and that key exists exactly when the stream is non-empty
\* and its first unit is not detected as a header.
C16_PreambleKey ==
    bsPc = "returned" =>
        /\ (\E k \in 1..Len(sections) : sections[k].id = Preamble)
              <=> /\ firstResult # <<>>
                  /\ ~(/\ firstResult[1].element_type = "text"
                       /\ FourConditions(firstResult[1].content, flatToc))
        /\ SectionUnits(sections, Preamble)
              = SubSeq(globalStream, 1, FirstHeader(globalStream) - 1)
        /\ \A i \in 1..(FirstHeader(globalStream) - 1) :
              globalStream[i].section_id = Preamble

\* C16 witness: one result with units before the first header under
\* "_preamble" and later sections after it
C16_Witness ==
    /\ bsPc = "returned"
    /\ Len(sections) >= 2
    /\ sections[1].id = Preamble
    /\ Len(sections[1].elems) = 2
    /\ FirstHeader(globalStream) = 3

\* C16 witness of the other side: the first unit is a header and the result
\* has no "_preamble" key
C16_WitnessNoPreamble ==
    /\ bsPc = "returned"
    /\ Len(globalStream) >= 2
    /\ globalStream[1].element_type = "header"
    /\ \A k \in 1..Len(sections) : sections[k].id # Preamble

\* C19: every unit stored under a key carries that key as its section_id,
\* and a promoted unit is stored under, and stamped with, the numeral it
\* starts with, the section it opens.
C19_SectionIdMatchesKey ==
    bsPc = "returned" =>
        /\ \A k \in 1..Len(sections) :
              \A n \in 1..Len(sections[k].elems) :
                  sections[k].elems[n].section_id = sections[k].id
        /\ \A i \in 1..Len(globalStream) :
              globalStream[i].element_type = "header" =>
                  /\ globalStream[i].section_id
                        = SubSeq(globalStream[i].content, 1,
                                 DottedNumeralEnd(globalStream[i].content, 1))
                  /\ \E n \in 1..Len(SectionUnits(sections, globalStream[i].section_id)) :
                        SectionUnits(sections, globalStream[i].section_id)[n]
                            = globalStream[i]

\* C19 witness: a header that follows preamble units and opens section 2.1,
\* then a second header that opens 2.2 after it
C19_Witness ==
    /\ bsPc = "returned"
    /\ Len(globalStream) = 3
    /\ globalStream[1].section_id = Preamble
    /\ globalStream[2].element_type = "header"
    /\ globalStream[2].section_id = <<"2", ".", "1">>
    /\ globalStream[3].element_type = "header"
    /\ globalStream[3].section_id = <<"2", ".", "2">>

\* C20: segment() changes a unit's variant only from Text to Header, never
\* relabels an Image, and leaves content, page_num, y_position, bbox and
\* image_bytes of every unit as load() returned them; segment() over the
\* stream it has already segmented leaves every Header and Image unit's
\* variant, and every other field but section_id, as it was.
C20_SegmentFrame ==
    bsPc = "returned" =>
        /\ Len(globalStream) = Len(firstResult)
        /\ \A i \in 1..Len(firstResult) :
              LET before == firstResult[i]
                  after == globalStream[i]
              IN  /\ after.element_type # before.element_type
                        => (before.element_type = "text" /\ after.element_type = "header")
                  /\ before.element_type = "image" => after.element_type = "image"
                  /\ after.content = before.content
                  /\ after.page_num = before.page_num
                  /\ after.y_position = before.y_position
                  /\ after.bbox = before.bbox
                  /\ after.image_bytes = before.image_bytes
                  /\ after.src = before.src
        /\ LET again == Segment(globalStream, flatToc).stream
           IN  \A i \in 1..Len(globalStream) :
                   /\ globalStream[i].element_type \in {"header", "image"}
                         => again[i].element_type = globalStream[i].element_type
                   /\ [again[i] EXCEPT !.element_type = "x", !.section_id = "x"]
                         = [globalStream[i] EXCEPT !.element_type = "x", !.section_id = "x"]

\* C20 witness: a stream with an image, a promoted text and a text left alone
C20_Witness ==
    /\ bsPc = "returned"
    /\ \E i, j, k \in 1..Len(globalStream) :
          /\ firstResult[i].element_type = "image"
          /\ globalStream[i].image_bytes # NoneVal
          /\ firstResult[j].element_type = "text"
          /\ globalStream[j].element_type = "header"
          /\ firstResult[k].element_type = "text"
          /\ globalStream[k].element_type = "text"

\* the first position of the stream stamped with a section id (0 if none)
FirstStamped(stream, id) ==
    IF \E i \in 1..Len(stream) : stream[i].section_id = id
    THEN CHOOSE i \in 1..Len(stream) :
             /\ stream[i].section_id = id
             /\ \A j \in 1..(i - 1) : stream[j].section_id # id
    ELSE 0

\* C21: the keys of the result are distinct and in the order in which
\* their ids were first met in the scan: "_preamble" first when present,
\* then each section id at its first detected header.
C21_KeysInFirstEncounterOrder ==
    bsPc = "returned" =>
        /\ \A k \in 1..Len(sections) : FirstStamped(globalStream, sections[k].id) >= 1
        /\ \A k, l \in 1..Len(sections) :
              k < l => FirstStamped(globalStream, sections[k].id)
                          < FirstStamped(globalStream, sections[l].id)
        /\ \A k \in 1..Len(sections) :
              sections[k].id = Preamble => k = 1
        /\ \A k \in 1..Len(sections) :
              sections[k].id # Preamble =>
                  globalStream[FirstStamped(globalStream, sections[k].id)].element_type
                      = "header"
        /\ \A i \in 1..Len(globalStream) :
              \E k \in 1..Len(sections) : sections[k].id = globalStream[i].section_id

\* C21 witness: 2.2 met before 2.1, against the TOC order, then 2.2 met again
C21_Witness ==
    /\ bsPc = "returned"
    /\ Len(sections) = 2
    /\ sections[1].id = <<"2", ".", "2">>
    /\ sections[2].id = <<"2", ".", "1">>
    /\ Len(globalStream) = 3
    /\ globalStream[3].section_id = <<"2", ".", "2">>
    /\ globalStream[3].element_type = "header"

\* C22: a Text unit that starts with a numeral no anchor carries stays a
\* Text unit, is stamped with and stored under the section that was current
\* before it, and no key is made of its numeral.
C22_NonTocNumeralIsBody ==
    bsPc = "returned" =>
        \A i \in 1..Len(firstResult) :
            LET before == firstResult[i]
                after == globalStream[i]
                numeral == SubSeq(before.content, 1, DottedNumeralEnd(before.content, 1))
                current == IF i = 1 THEN Preamble ELSE globalStream[i - 1].section_id
            IN  (/\ before.element_type = "text"
                 /\ before.content \in {Header21, Header22, Header23, Header2}
                 /\ ~HasAnchor(flatToc, numeral))
                => /\ after.element_type = "text"
                   /\ after.section_id = current
                   /\ \A k \in 1..Len(sections) : sections[k].id # numeral
                   /\ \E n \in 1..Len(SectionUnits(sections, current)) :
                         SectionUnits(sections, current)[n] = after
                   /\ i < Len(globalStream) /\ globalStream[i + 1].element_type # "header"
                         => globalStream[i + 1].section_id = current

\* C22 witness: "2.3 More" between the header of 2.1 and a body text, both
\* left in 2.1
C22_Witness ==
    /\ bsPc = "returned"
    /\ Len(globalStream) = 3
    /\ globalStream[1].element_type = "header"
    /\ globalStream[1].section_id = <<"2", ".", "1">>
    /\ globalStream[2].content = Header23
    /\ globalStream[2].element_type = "text"
    /\ globalStream[3].content = BodyText
    /\ globalStream[3].section_id = <<"2", ".", "1">>
    /\ Len(sections) = 1

\* C23: a snapshot's clip has top = max(50, y0 - 350) and bottom =
\* max(top + 50, y0 - 10) for the caption's y0, so top >= 50 and the clip is
\* at least 50 high; the snapshot is an Image at y_position = top on the
\* caption's page, with the content "[SNAPSHOT:P<page>]" that no extracted
\* image has.
C23_SnapshotClip ==
    bsPc \in {"recovered", "loaded"} =>
        \A j \in 1..Len(globalStream) :
            globalStream[j].src[2] = "snap" =>
                LET snap == globalStream[j]
                    cap == SortStream(AllElements(pdf))[snap.src[3]]
                    y0 == cap.y_position
                    top == IF y0 - 350 > 50 THEN y0 - 350 ELSE 50
                    bottom == IF y0 - 10 > top + 50 THEN y0 - 10 ELSE top + 50
                IN  /\ snap.bbox.y0 = top
                    /\ snap.bbox.y1 = bottom
                    /\ snap.bbox.y0 >= 50
                    /\ snap.bbox.y1 - snap.bbox.y0 >= 50
                    /\ snap.y_position = top
                    /\ snap.page_num = cap.page_num
                    /\ snap.element_type = "image"
                    /\ snap.image_bytes # NoneVal
                    /\ snap.content =
                          IF cap.page_num = 1
                          THEN <<"[", "S", "N", "A", "P", "S", "H", "O", "T", ":", "P", "1", "]">>
                          ELSE <<"[", "S", "N", "A", "P", "S", "H", "O", "T", ":", "P", "2", "]">>
                    /\ \A k \in 1..Len(globalStream) :
                          globalStream[k].src[2] = "image"
                              => globalStream[k].content # snap.content

\* C23 witness: a stream with an extracted image, a snapshot whose clip is
\* held at the header margin (caption at 40) and a snapshot whose clip ends
\* 10 above its caption (caption at 520 on page 2)
C23_Witness ==
    /\ bsPc = "loaded"
    /\ \E i, j, k \in 1..Len(globalStream) :
          /\ globalStream[i].src[2] = "image"
          /\ globalStream[j].src[2] = "snap"
          /\ globalStream[j].bbox = [y0 |-> 50, y1 |-> 100]
          /\ globalStream[k].src[2] = "snap"
          /\ globalStream[k].bbox = [y0 |-> 170, y1 |-> 510]

\* C26: the recovery pass ends with the units it started from unchanged and
\* in place at the front of the list, followed by the snapshots it
\* appended: Image units, one at most for each "Figure N:" caption of the
\* stream it started from, none for a snapshot.
C26_RecoveryPassBounded ==
    bsPc = "recovered" =>
        LET before == SortStream(AllElements(pdf))
            n == Len(before)
            captions == {i \in 1..n : /\ before[i].element_type = "text"
                                      /\ CaptionPattern(before[i].content)}
        IN  /\ Len(globalStream) >= n
            /\ SubSeq(globalStream, 1, n) = before
            /\ \A j \in (n + 1)..Len(globalStream) :
                  /\ globalStream[j].src[2] = "snap"
                  /\ globalStream[j].element_type = "image"
                  /\ globalStream[j].src[3] \in captions
            /\ \A j, k \in (n + 1)..Len(globalStream) :
                  globalStream[j].src[3] = globalStream[k].src[3] => j = k
            /\ Len(globalStream) - n <= Cardinality(captions)
            /\ \A k \in 1..Len(recoveryLog) : recoveryLog[k].index <= n

\* C26 witness: the pass has appended two snapshots to a stream of three
\* units and has stopped after them
C26_Witness ==
    /\ bsPc = "recovered"
    /\ Len(SortStream(AllElements(pdf))) = 3
    /\ Len(globalStream) = 5
    /\ globalStream[4].src[2] = "snap"
    /\ globalStream[5].src[2] = "snap"
    /\ Len(recoveryLog) = 2

\* the largest page of the anchors of a TOC tree
MaxAnchorPage(tree) ==
    LET nodes == TreeNodes(tree)
    IN  CHOOSE m \in {nodes[k].page : k \in 1..Len(nodes)} :
            \A k \in 1..Len(nodes) : nodes[k].page <= m

\* the buffers (by position) that hold a content made of page p
BuffersOfPage(bufs, p) ==
    {k \in 1..Len(bufs) :
        \E n \in 1..Len(bufs[k].contents) :
            \/ Contains(bufs[k].contents[n], PageMark(p))
            \/ bufs[k].contents[n] = <<"<", "v", "i", "s", "i", "o", "n", ":">>
                                        \o IntChars(p) \o <<">">>}

\* C24: the page map's keys are the pages 1 .. largest anchor page + 50; a
\* processed page past that range is buffered under "Unknown" and under no
\* other key, and no written file holds its content.
C24_PageMapRange ==
    hyPc \in {"pages", "returned"} =>
        LET last == MaxAnchorPage(hyIn.toc.toc_tree) + 50
        IN  /\ DOMAIN pageMap = 1..last
            /\ \A k \in 1..Len(pathLog) :
                  pathLog[k].page > last =>
                      /\ BuffersOfPage(sectionBuffers, pathLog[k].page) # {}
                      /\ \A b \in BuffersOfPage(sectionBuffers, pathLog[k].page) :
                             sectionBuffers[b].id = <<"U", "n", "k", "n", "o", "w", "n">>
            /\ hyPc = "returned" =>
                  \A p \in (last + 1)..Len(hyIn.pages) :
                      \A f \in 1..Len(genFiles) :
                          ~Contains(genFiles[f].text, PageMark(p))

\* C24 witness: a run over a document two pages longer than the map has
\* returned, its last pages under "Unknown", with a file written
C24_Witness ==
    /\ hyPc = "returned"
    /\ Len(pageMap) = 52
    /\ Len(hyIn.pages) = 54
    /\ Len(pathLog) = 54
    /\ \E b \in 1..Len(sectionBuffers) :
          /\ sectionBuffers[b].id = Unknown
          /\ Len(sectionBuffers[b].contents) = 2
    /\ genFiles # <<>>

\* the section a page is filed under, and whether the filters let it pass
SectionOfPage(p) ==
    IF p \in DOMAIN pageMap THEN pageMap[p] ELSE <<"U", "n", "k", "n", "o", "w", "n">>

PassesFilters(p) ==
    /\ hyIn.target_page = 0 \/ p = hyIn.target_page
    /\ hyIn.target_section = NoneVal \/ SectionOfPage(p) = hyIn.target_section

FailureMarker ==
    <<"[", "V", "I", "S", "I", "O", "N", " ", "F", "A", "I", "L", "E", "D", " ",
      "M", "E", "S", "S", "A", "G", "E", "]", "\n", "\n">>

\* C25: a page on the vision path whose vision call fails gets the failure
\* marker followed by its raw text as content, in the buffer of its section;
\* the run goes on, and when it returns every later page that passes the
\* filters has been processed and, unless filed under "Unknown" or
\* "_preamble", is in a written file.
C25_VisionFailureLocal ==
    hyPc \in {"pages", "returned"} =>
        \A k \in 1..Len(pathLog) :
            LET p == pathLog[k].page
                page == hyIn.pages[p]
            IN  (pathLog[k].paths = {"vision"} /\ page.pixmap_ok /\ ~page.vision_ok) =>
                  /\ \E b \in 1..Len(sectionBuffers) :
                        /\ sectionBuffers[b].id = SectionOfPage(p)
                        /\ \E n \in 1..Len(sectionBuffers[b].contents) :
                              sectionBuffers[b].contents[n] = FailureMarker \o page.raw_text
                  /\ hyPc = "returned" =>
                        \A q \in (p + 1)..Len(hyIn.pages) :
                            PassesFilters(q) =>
                              /\ \E j \in (k + 1)..Len(pathLog) : pathLog[j].page = q
                              /\ BuffersOfPage(sectionBuffers, q) # {}
                              /\ SectionOfPage(q) \notin {Unknown, Preamble} =>
                                    \E f \in 1..Len(genFiles) :
                                        \/ Contains(genFiles[f].text, PageMark(q))
                                        \/ Contains(genFiles[f].text,
                                                    <<"v", "i", "s", "i", "o", "n", ":">>
                                                    \o IntChars(q) \o <<">">>)

\* C25 witness: the vision call failed on page 1; pages 2 and 3 were
\* processed after it (one by vision, one as text) and the run wrote files
\* that hold the marker and the later pages
C25_Witness ==
    /\ hyPc = "returned"
    /\ Len(hyIn.pages) = 3
    /\ ~hyIn.pages[1].vision_ok
    /\ Len(pathLog) = 3
    /\ pathLog[1].paths = {"vision"}
    /\ pathLog[2].paths = {"vision"}
    /\ hyIn.pages[2].vision_ok
    /\ pathLog[3].paths = {"text"}
    /\ \E f \in 1..Len(genFiles) : Contains(genFiles[f].text, FailureMarker \o PageMark(1))
    /\ \E f \in 1..Len(genFiles) : Contains(genFiles[f].text, PageMark(3))

\* whether a buffered content was made of page p
EntryOfPage(content, p) ==
    \/ Contains(content, PageMark(p))
    \/ content = <<"<", "v", "i", "s", "i", "o", "n", ":">> \o IntChars(p) \o <<">">>

\* the page a buffered content was made of
PageOfEntry(content) ==
    CHOOSE p \in 1..Len(hyIn.pages) : EntryOfPage(content, p)

\* C30: when process_document returns, every page that passes the filters
\* has exactly one entry, in the buffer of its page-map id and in no other
\* buffer; a page that does not pass has none; the entries of a buffer are
\* in ascending page order; and there is one written file, returned once,
\* for every buffer but "Unknown" and "_preamble".
C30_OneEntryPerPage ==
    hyPc = "returned" =>
        /\ \A p \in 1..Len(hyIn.pages) :
              IF PassesFilters(p)
              THEN \E b \in 1..Len(sectionBuffers) :
                      /\ BuffersOfPage(sectionBuffers, p) = {b}
                      /\ sectionBuffers[b].id = SectionOfPage(p)
                      /\ Cardinality({n \in 1..Len(sectionBuffers[b].contents) :
                                         EntryOfPage(sectionBuffers[b].contents[n], p)}) = 1
              ELSE BuffersOfPage(sectionBuffers, p) = {}
        /\ \A b \in 1..Len(sectionBuffers) :
              /\ sectionBuffers[b].contents # <<>>
              /\ \A c \in 1..Len(sectionBuffers) :
                    sectionBuffers[b].id = sectionBuffers[c].id => b = c
              /\ \A n \in 1..(Len(sectionBuffers[b].contents) - 1) :
                    PageOfEntry(sectionBuffers[b].contents[n])
                        < PageOfEntry(sectionBuffers[b].contents[n + 1])
        /\ Len(genFiles) =
              Cardinality({b \in 1..Len(sectionBuffers) :
                              sectionBuffers[b].id \notin {Unknown, Preamble}})
        /\ \A f, g \in 1..Len(genFiles) : genFiles[f].path = genFiles[g].path => f = g
        /\ \A b \in 1..Len(sectionBuffers) :
              sectionBuffers[b].id \in {<<"2", ".", "1">>, <<"2", ".", "2">>} =>
                  \E f \in 1..Len(genFiles) :
                      /\ genFiles[f].path =
                            <<"S", "e", "c", "t", "i", "o", "n", "_", "2", "_">>
                            \o <<sectionBuffers[b].id[3]>> \o <<".", "m", "d">>
                      /\ \A n \in 1..Len(sectionBuffers[b].contents) :
                            Contains(genFiles[f].text, sectionBuffers[b].contents[n])

\* C30 witness: a run over a long document with a section filter has
\* skipped pages, has several entries in its one buffer and has written
\* that buffer's file
C30_Witness ==
    /\ hyPc = "returned"
    /\ hyIn.target_section = <<"2", ".", "1">>
    /\ Len(hyIn.pages) = 54
    /\ Len(sectionBuffers) = 1
    /\ Len(sectionBuffers[1].contents) > 2
    /\ Len(genFiles) = 1

\* C30 witness without filters: three pages in three buffers, of which
\* "Unknown" is not written
C30_WitnessUnfiltered ==
    /\ hyPc = "returned"
    /\ hyIn.target_page = 0
    /\ hyIn.target_section = NoneVal
    /\ Len(hyIn.pages) = 3
    /\ Len(sectionBuffers) = 2
    /\ sectionBuffers[1].id = Unknown
    /\ Len(sectionBuffers[1].contents) = 2
    /\ Len(genFiles) = 1

\* C27 (as claimed): for every TOC title the id the page map's flattener
\* derives equals the section_id the segmenter's flattener derives, so every
\* value of the page map is an anchor's section_id or "_preamble".
C27_FlattenersAgree ==
    hyPc \in {"pages", "returned"} =>
        LET anchors == LoadToc(hyIn.toc)
            entries == HyFlatten(HyTree(hyIn.toc))
        IN  /\ \A k \in 1..Len(anchors) :
                  HySectionId(anchors[k].title) = anchors[k].section_id
            /\ \A p \in DOMAIN pageMap :
                  \/ pageMap[p] = Preamble
                  \/ \E k \in 1..Len(anchors) : anchors[k].section_id = pageMap[p]

\* a line that is a request with an id for one of the four methods
IsRequest(line) ==
    /\ line.json = "object"
    /\ line.has_id
    /\ line.method \in {"initialize", "tools/list", "ping", "tools/call"}

\* C28 (as claimed): when the loop has ended, every line that is a request
\* with an id for initialize, tools/list, ping or tools/call has exactly one
\* response with its id, and the responses are in the order of the
\* requests; a search on a missing table and a call of an unknown tool
\* included (a search that raises excepted).
C28_OneResponsePerRequest ==
    mcPc = "ended" /\ mcThread = "done" =>
        /\ \A k \in 1..Len(mcIn.lines) :
              (IsRequest(mcIn.lines[k]) /\ ~mcIn.lines[k].search_raises) =>
                  Cardinality({n \in 1..Len(mcOut) : mcOut[n].id = k}) = 1
        /\ \A n, m \in 1..Len(mcOut) : n < m => mcOut[n].id < mcOut[m].id

\* C29 (as claimed): a line whose handling raises writes nothing, blank
\* lines and unknown methods write nothing, and the loop goes on to every
\* later line: it stops only once the reading thread has fed end of file
\* (stdin at its end, or the thread failed), with every line read handled.
C29_ErrorsDoNotStopLoop ==
    /\ \A n \in 1..Len(mcOut), e \in 1..Len(mcErr) : mcOut[n].id # mcErr[e]
    /\ \A n \in 1..Len(mcOut) :
          /\ mcIn.lines[mcOut[n].id].json = "object"
          /\ mcIn.lines[mcOut[n].id].method # "resources/list"
    /\ mcPc # "running" =>
          /\ mcEof
          /\ mcHandled = [k \in 1..mcRead |-> k]

=============================================================================
